---- MODULE Spec2Model ----
(***************************************************************************)
(* A model of the day-19 solver (src/src/bin/19.rs): the robot-building    *)
(* transition function State::possible_moves, the pruned queue search      *)
(* Blueprint::most_geodes_openable, Blueprint::from_str and the two        *)
(* aggregates part_one and part_two; and of parts of other programs: the   *)
(* SNAFU conversions of 25.rs, the RockIterator of 14.rs,                  *)
(* State::enclosed_empty_spaces and State::next of 23.rs, the TetrisGame   *)
(* of 17.rs, the blizzard basin of 24.rs, the Rope of 09.rs and mix of     *)
(* 20.rs.                                                                  *)
(* Each program has its own specification; the variables of the others     *)
(* keep their idle values meanwhile.                                       *)
(*                                                                         *)
(* A Cost(u32, u32, u32) is the tuple <<ore, clay, obsidian>>; a State and *)
(* a Blueprint are records with the fields of the Rust structs.  u32       *)
(* arithmetic is done in the integers, so that an unsigned underflow shows *)
(* up as a negative number instead of being hidden by wrapping.            *)
(***************************************************************************)
EXTENDS Integers, Sequences, FiniteSets, TLC

\* ------------------------------------------------------------------ bounds

\* The queue search is run on budgets 1..SearchMaxMinutes on the blueprints
\* whose six costs range over 0..SearchMaxCost, and on two more minutes on
\* SavingBlueprints.
SearchMaxMinutes == 3

SearchMaxCost == 1

\* The transition graph is explored from budgets 1..MaxMinutes on the
\* blueprints whose six costs range over 0..MaxCost.
MaxMinutes == 6

MaxCost == 2

\* The inputs of part_one and part_two have at most MaxLines lines.
MaxLines == 2

\* ---------------------------------------------------- program constants

\* `blueprint.most_geodes_openable(24)` in part_one
PartOneMinutes == 24

\* `blueprint.most_geodes_openable(32)` in part_two
PartTwoMinutes == 32

\* `if blueprint.number <= 3` in part_two
PartTwoLastNumber == 3

\* ------------------------------------------------------------- arithmetic

Max(a, b) == IF a >= b THEN a ELSE b

\* u32::saturating_sub
saturating_sub(a, b) == IF a >= b THEN a - b ELSE 0

\* Mutant: the division rounds down.
DivFloor(a, b) == a \div b

div_ceil(a, b) == (a + b - 1) \div b

\* ------------------------------------------------------------- blueprints

CostMax(self, other) ==
    << Max(self[1], other[1]), Max(self[2], other[2]), Max(self[3], other[3]) >>

ROBOT_TYPES == << "Ore", "Clay", "Obsidian", "Geode" >>

RobotCost(robot, bp) ==
    CASE robot = "Ore"      -> bp.ore_robot_cost
      [] robot = "Clay"     -> bp.clay_robot_cost
      [] robot = "Obsidian" -> bp.obsidian_robot_cost
      [] robot = "Geode"    -> bp.geode_robot_cost

\* Mutant: the cost of the geode robot is left out of the maximum.
MostRobotsNeededBeforeGeode(bp) ==
    CostMax(CostMax(CostMax(<<0, 0, 0>>, bp.ore_robot_cost),
                    bp.clay_robot_cost),
            bp.obsidian_robot_cost)

most_robots_needed(bp) ==
    CostMax(CostMax(CostMax(CostMax(<<0, 0, 0>>, bp.ore_robot_cost),
                            bp.clay_robot_cost),
                    bp.obsidian_robot_cost),
            bp.geode_robot_cost)

MakeBlueprint(n, oo, co, bo, bc, go, gb) ==
    [ number              |-> n,
      ore_robot_cost      |-> <<oo, 0, 0>>,
      clay_robot_cost     |-> <<co, 0, 0>>,
      obsidian_robot_cost |-> <<bo, bc, 0>>,
      geode_robot_cost    |-> <<go, 0, gb>> ]

\* The blueprint of the tests: ore 4; clay 2; obsidian 3 + 14; geode 2 + 7.
ExampleBlueprint == MakeBlueprint(1, 4, 2, 3, 14, 2, 7)

\* The blueprints numbered 1 whose six costs are at most `most`.
Blueprints(most) ==
    { MakeBlueprint(1, oo, co, bo, bc, go, gb) :
        oo \in 0..most, co \in 0..most, bo \in 0..most,
        bc \in 0..most, go \in 0..most, gb \in 0..most }

\* Blueprints on which opening the most geodes takes saving ore for a
\* geode robot instead of building whatever is affordable at once.
SavingBlueprints ==
    { MakeBlueprint(1, 0, co, 0, 0, 2, 1) : co \in 0..SearchMaxCost }

\* ----------------------------------------------------------------- states

create_initial(time) ==
    [ time            |-> time,
      open_geodes     |-> 0,
      ore_robots      |-> 1,
      clay_robots     |-> 0,
      obsidian_robots |-> 0,
      ore             |-> 0,
      clay            |-> 0,
      obsidian        |-> 0 ]

\* Mutant: the bound without the geodes already opened.
BoundWithoutOpenGeodes(s) == (s.time * (s.time - 1)) \div 2

\* Mutant: the triangular number taken one minute short.
BoundOneMinuteShort(s) ==
    s.open_geodes + (((s.time - 1) * (s.time - 2)) \div 2)

maximum_achievable_open_geodes(s) ==
    s.open_geodes + ((s.time * (s.time - 1)) \div 2)

\* Mutant: `>` written for `>=`, one robot more than needed is built.
AtMostRobotsNeededStrict(s, robot, mrn) ==
    CASE robot = "Ore"      -> s.ore_robots > mrn[1]
      [] robot = "Clay"     -> s.clay_robots > mrn[2]
      [] robot = "Obsidian" -> s.obsidian_robots > mrn[3]
      [] robot = "Geode"    -> FALSE

\* The `if match robot { ... } { continue; }` of possible_moves.
AtMostRobotsNeeded(s, robot, mrn) ==
    CASE robot = "Ore"      -> s.ore_robots >= mrn[1]
      [] robot = "Clay"     -> s.clay_robots >= mrn[2]
      [] robot = "Obsidian" -> s.obsidian_robots >= mrn[3]
      [] robot = "Geode"    -> FALSE

\* Whether one of the three `if x_needed > 0 { if self.x_robots == 0 {
\* continue; } ... }` blocks takes its `continue`.  x_needed is
\* `cost.saturating_sub(self.x)`, which is above 0 exactly when the cost is
\* above the stock.
Unreachable(s, cost) ==
    \/ (cost[1] > s.ore /\ s.ore_robots = 0)
    \/ (cost[2] > s.clay /\ s.clay_robots = 0)
    \/ (cost[3] > s.obsidian /\ s.obsidian_robots = 0)

\* Mutant: `.min` written for `.max`, which leaves the wait at 0.
MinutesUntilStartMin(s, cost) == 0

\* The value of minutes_until_start after the three blocks: the largest of
\* 0 and, for each stock below the cost, div_ceil(x_needed, self.x_robots).
minutes_until_start(s, cost) ==
    LET for_ore      == IF cost[1] > s.ore
                        THEN div_ceil(cost[1] - s.ore, s.ore_robots)
                        ELSE 0
        for_clay     == IF cost[2] > s.clay
                        THEN div_ceil(cost[2] - s.clay, s.clay_robots)
                        ELSE 0
        for_obsidian == IF cost[3] > s.obsidian
                        THEN div_ceil(cost[3] - s.obsidian, s.obsidian_robots)
                        ELSE 0
        for_both     == IF for_ore >= for_clay THEN for_ore ELSE for_clay
    IN  IF for_both >= for_obsidian THEN for_both ELSE for_obsidian

\* Mutant: the minute the build itself takes is not counted.
TimeAfterWaitOnly(s, wait) == saturating_sub(s.time, wait)

\* `let time = self.time.saturating_sub(1 + minutes_until_start);`
TimeAfter(s, wait) == saturating_sub(s.time, 1 + wait)

\* Mutant: the robots collect while waiting but not in the build minute.
BuiltWithoutBuildMinute(s, robot, cost, wait, time) ==
    [ time            |-> time,
      open_geodes     |-> s.open_geodes + (IF robot = "Geode" THEN time ELSE 0),
      ore_robots      |-> s.ore_robots + (IF robot = "Ore" THEN 1 ELSE 0),
      clay_robots     |-> s.clay_robots + (IF robot = "Clay" THEN 1 ELSE 0),
      obsidian_robots |-> s.obsidian_robots
                            + (IF robot = "Obsidian" THEN 1 ELSE 0),
      ore             |-> s.ore + (s.ore_robots * wait) - cost[1],
      clay            |-> s.clay + (s.clay_robots * wait) - cost[2],
      obsidian        |-> s.obsidian + (s.obsidian_robots * wait) - cost[3] ]

\* Mutant: open_geodes is set to new_geodes, the parent's count dropped.
BuiltForgetsOpenGeodes(s, robot, cost, wait, time) ==
    [ time            |-> time,
      open_geodes     |-> IF robot = "Geode" THEN time ELSE 0,
      ore_robots      |-> s.ore_robots + (IF robot = "Ore" THEN 1 ELSE 0),
      clay_robots     |-> s.clay_robots + (IF robot = "Clay" THEN 1 ELSE 0),
      obsidian_robots |-> s.obsidian_robots
                            + (IF robot = "Obsidian" THEN 1 ELSE 0),
      ore             |-> s.ore + (s.ore_robots * (wait + 1)) - cost[1],
      clay            |-> s.clay + (s.clay_robots * (wait + 1)) - cost[2],
      obsidian        |-> s.obsidian + (s.obsidian_robots * (wait + 1)) - cost[3] ]

\* The State { ... } inserted for `robot` after waiting `wait` minutes, with
\* `time` minutes left; a stock is
\* `self.ore + (self.ore_robots * (minutes_until_start + 1)) - cost.0`.
Built(s, robot, cost, wait, time) ==
    [ time            |-> time,
      open_geodes     |-> s.open_geodes + (IF robot = "Geode" THEN time ELSE 0),
      ore_robots      |-> s.ore_robots + (IF robot = "Ore" THEN 1 ELSE 0),
      clay_robots     |-> s.clay_robots + (IF robot = "Clay" THEN 1 ELSE 0),
      obsidian_robots |-> s.obsidian_robots
                            + (IF robot = "Obsidian" THEN 1 ELSE 0),
      ore             |-> s.ore + (s.ore_robots * (wait + 1)) - cost[1],
      clay            |-> s.clay + (s.clay_robots * (wait + 1)) - cost[2],
      obsidian        |-> s.obsidian + (s.obsidian_robots * (wait + 1)) - cost[3] ]

\* The body of `for robot in ROBOT_TYPES`: the states it inserts, none after
\* a `continue` or when no time would be left, else one.
Build(s, robot, bp, mrn) ==
    LET cost == RobotCost(robot, bp)
        wait == minutes_until_start(s, cost)
        time == TimeAfter(s, wait)
    IN  IF AtMostRobotsNeeded(s, robot, mrn) \/ Unreachable(s, cost)
        THEN << >>
        ELSE IF time > 0
             THEN << Built(s, robot, cost, wait, time) >>
             ELSE << >>

\* Whether the loop body of possible_moves inserts a state for `robot`.
Emits(s, robot, bp, mrn) == Build(s, robot, bp, mrn) # << >>

\* The state it inserts when it does.
MoveFor(s, robot, bp) ==
    LET cost == RobotCost(robot, bp)
        wait == minutes_until_start(s, cost)
    IN  Built(s, robot, cost, wait, TimeAfter(s, wait))

\* The states in the order in which the loop over ROBOT_TYPES inserts them.
InsertionOrder(s, bp, mrn) ==
    Build(s, "Ore", bp, mrn) \o Build(s, "Clay", bp, mrn)
        \o Build(s, "Obsidian", bp, mrn) \o Build(s, "Geode", bp, mrn)

\* The HashSet returned.
possible_moves(s, bp, mrn) ==
    LET inserted == InsertionOrder(s, bp, mrn)
    IN  { inserted[i] : i \in 1..Len(inserted) }

\* ----------------------------------------------------------------- search

VARIABLES
    blueprint,  \* &self of most_geodes_openable and of possible_moves
    most_needed,\* `let most_robots_needed = self.most_robots_needed();`
    minutes,    \* the budget the initial state is created with
    consider,   \* the VecDeque of most_geodes_openable
    best,       \* its running maximum
    pc,         \* "run" inside the while loop, "done" once best is returned
    discarded,  \* history: how many popped states took the `continue`
    origin,     \* transition graph: a state reached from the initial one
    state,      \* transition graph: a state reached from origin
    input,      \* the text given to part_one and part_two, as lines
    answer_one, \* what part_one returned
    answer_two, \* what part_two returned
    overflow_checks, \* 25.rs: whether the build panics on integer overflow
    decimal,    \* 25.rs: the argument of decimal_to_snafu
    snafu,      \* 25.rs: what decimal_to_snafu did with it
    round_trip, \* 25.rs: what snafu_to_decimal made of that text
    rocks,      \* 14.rs: the RockIterator
    start,      \* 14.rs: the first argument of from_points
    yielded,    \* 14.rs: history: what next has returned in Some so far
    elves,      \* 23.rs: the elves of the State
    enclosed,   \* 23.rs: what enclosed_empty_spaces returned
    game,       \* 17.rs: the TetrisGame
    shapes,     \* 17.rs: the argument of height_after_rocks
    extra_height, \* 17.rs: the local of height_after_rocks
    height,     \* 17.rs: what height_after_rocks returned
    direction_cycle, \* 23.rs: the direction_cycle of the State
    basin,      \* 24.rs: the State
    part,       \* 24.rs: 1 inside part_one, 2 inside part_two
    trip,       \* 24.rs: how many crossings part_two has finished
    elapsed,    \* 24.rs: what part_one or part_two returned
    rope,       \* 09.rs: the knots of the Rope
    list,       \* 20.rs: the first argument of mix
    rounds,     \* 20.rs: the second argument of mix
    circle,     \* 20.rs: the VecDeque of mix, as (index, value) pairs
    round,      \* 20.rs: how many rounds of mix are complete
    mix_ix,     \* 20.rs: the `ix` of the inner loop of mix
    mixed       \* 20.rs: what mix returned

\* The variables of each program.
day19 == << blueprint, most_needed, minutes, consider, best, discarded,
            origin, state, input, answer_one, answer_two >>

day25 == << overflow_checks, decimal, snafu, round_trip >>

day14 == << rocks, start, yielded >>

day23 == << elves, enclosed, direction_cycle >>

day17 == << game, shapes, extra_height, height >>

\* The variables of the programs other than 19.rs.
day24 == << basin, part, trip, elapsed >>

day09 == << rope >>

day20 == << list, rounds, circle, round, mix_ix, mixed >>

remaining_programs == << day24, day09, day20 >>

other_programs == << day25, day14, day23, day17, remaining_programs >>

vars == << pc, day19, other_programs >>

\* Option<u32>
None == [ some |-> FALSE ]

Some(v) == [ some |-> TRUE, value |-> v ]

\* An arithmetic overflow panics in a build with overflow checks.
Panic == [ panic |-> TRUE ]

\* What an evaluation that did not panic returns.
Done(v) == [ panic |-> FALSE, value |-> v ]

Panicked(r) == r.panic

\* What the variables of the aggregates hold while they are not in use.
NoInput == input = << >> /\ answer_one = None /\ answer_two = None

\* What the variables of a program hold while another one runs.
Day25Idle ==
    /\ overflow_checks = TRUE
    /\ decimal = 0
    /\ snafu = Done(<< >>)
    /\ round_trip = Done(0)

Day14Idle ==
    /\ rocks = [ point |-> << 0, 0 >>, delta |-> << 0, 0 >>, finish |-> << 0, 0 >> ]
    /\ start = << 0, 0 >>
    /\ yielded = << >>

Day23Idle == elves = { } /\ enclosed = None /\ direction_cycle = 0

Day17Idle == game = << >> /\ shapes = 0 /\ extra_height = 0 /\ height = None

Day24Idle == basin = << >> /\ part = 1 /\ trip = 0 /\ elapsed = None

Day09Idle == rope = << >>

Day20Idle ==
    /\ list = << >>
    /\ rounds = 0
    /\ circle = << >>
    /\ round = 0
    /\ mix_ix = 0
    /\ mixed = << >>

RemainingProgramsIdle == Day24Idle /\ Day09Idle /\ Day20Idle

OtherProgramsIdle ==
    /\ Day25Idle /\ Day14Idle /\ Day23Idle /\ Day17Idle
    /\ RemainingProgramsIdle

\* The orders in which a HashSet may be iterated.
Orderings(S) ==
    { f \in [1..Cardinality(S) -> S] :
        \A i, j \in 1..Cardinality(S) : i # j => f[i] # f[j] }

Init ==
    /\ \/ /\ blueprint \in Blueprints(SearchMaxCost)
          /\ minutes \in 1..SearchMaxMinutes
       \/ /\ blueprint \in SavingBlueprints
          /\ minutes \in 1..(SearchMaxMinutes + 2)
    /\ most_needed = most_robots_needed(blueprint)
    /\ consider = << create_initial(minutes) >>
    /\ best = 0
    /\ pc = "run"
    /\ discarded = 0
    /\ origin = create_initial(minutes)
    /\ state = create_initial(minutes)
    /\ NoInput
    /\ OtherProgramsIdle

\* Mutant: a child equal to a state that waits in the queue is not enqueued.
PopSkipsQueued ==
    /\ pc = "run"
    /\ consider # << >>
    /\ \E popped \in { Head(consider) } :
       LET newBest == Max(best, popped.open_geodes)
           queued == { consider[i] : i \in 2..Len(consider) }
       IN  /\ best' = newBest
           /\ IF maximum_achievable_open_geodes(popped) < newBest
              THEN /\ consider' = Tail(consider)
                   /\ discarded' = discarded + 1
              ELSE /\ \E kids \in { possible_moves(popped, blueprint, most_needed) \ queued } :
                      \E moves \in Orderings(kids) :
                         consider' = Tail(consider) \o moves
                   /\ discarded' = discarded
    /\ UNCHANGED << blueprint, most_needed, minutes, pc, origin, state, input, answer_one, answer_two, other_programs >>

\* Mutant: `<=` written for `<`, a state whose bound equals best is discarded.
PopDiscardsTies ==
    /\ pc = "run"
    /\ consider # << >>
    /\ \E popped \in { Head(consider) } :
       LET newBest == Max(best, popped.open_geodes)
       IN  /\ best' = newBest
           /\ IF maximum_achievable_open_geodes(popped) <= newBest
              THEN /\ consider' = Tail(consider)
                   /\ discarded' = discarded + 1
              ELSE /\ \E kids \in { possible_moves(popped, blueprint, most_needed) } :
                      \E moves \in Orderings(kids) :
                         consider' = Tail(consider) \o moves
                   /\ discarded' = discarded
    /\ UNCHANGED << blueprint, most_needed, minutes, pc, origin, state, input, answer_one, answer_two, other_programs >>

\* Mutant: a state that is to be discarded is looked at but left at the front.
PopLeavesDiscarded ==
    /\ pc = "run"
    /\ consider # << >>
    /\ \E popped \in { Head(consider) } :
       LET newBest == Max(best, popped.open_geodes)
       IN  /\ best' = newBest
           /\ IF maximum_achievable_open_geodes(popped) < newBest
              THEN consider' = consider
              ELSE \E kids \in { possible_moves(popped, blueprint, most_needed) } :
                   \E moves \in Orderings(kids) :
                      consider' = Tail(consider) \o moves
    /\ UNCHANGED << blueprint, most_needed, minutes, pc, discarded, origin, state, input, answer_one, answer_two, other_programs >>

\* One iteration of `while let Some(state) = consider.pop_front()`.
Pop ==
    /\ pc = "run"
    /\ consider # << >>
    /\ \E popped \in { Head(consider) } :
       LET newBest == Max(best, popped.open_geodes)
       IN  /\ best' = newBest
           /\ IF maximum_achievable_open_geodes(popped) < newBest
              THEN /\ consider' = Tail(consider)
                   /\ discarded' = discarded + 1
              ELSE /\ \E kids \in { possible_moves(popped, blueprint, most_needed) } :
                      \E moves \in Orderings(kids) :
                         consider' = Tail(consider) \o moves
                   /\ discarded' = discarded
    /\ UNCHANGED << blueprint, most_needed, minutes, pc, origin, state, input, answer_one, answer_two, other_programs >>

\* pop_front returns None: the loop ends and best is returned.
Return ==
    /\ pc = "run"
    /\ consider = << >>
    /\ pc' = "done"
    /\ UNCHANGED << blueprint, most_needed, minutes, consider, best, discarded, origin, state, input, answer_one, answer_two, other_programs >>

Next == Pop \/ Return

Spec == Init /\ [][Next]_vars

\* The while loop runs on: an iteration that can be taken is taken.
FairSpec == Spec /\ WF_vars(Next)

\* ------------------------------------------------------- transition graph

InitMoves ==
    /\ blueprint \in Blueprints(MaxCost)
    /\ minutes \in 1..MaxMinutes
    /\ most_needed = most_robots_needed(blueprint)
    /\ consider = << >>
    /\ best = 0
    /\ pc = "moves"
    /\ discarded = 0
    /\ origin = create_initial(minutes)
    /\ state = create_initial(minutes)
    /\ NoInput
    /\ OtherProgramsIdle

\* state.possible_moves(blueprint, most_robots_needed): one of its members.
Move ==
    /\ pc = "moves"
    /\ state' \in possible_moves(state, blueprint, most_needed)
    /\ UNCHANGED << blueprint, most_needed, minutes, consider, best, pc, discarded, origin, input, answer_one, answer_two, other_programs >>

\* Chains are measured from the state reached so far.
Rebase ==
    /\ pc = "moves"
    /\ origin # state
    /\ origin' = state
    /\ UNCHANGED << blueprint, most_needed, minutes, consider, best, pc, discarded, state, input, answer_one, answer_two, other_programs >>

NextMoves == Move \/ Rebase

SpecMoves == InitMoves /\ [][NextMoves]_vars

\* ------------------------------------------- search, one queue level a step

\* The iterations of the while loop that pop queue[1], ..., queue[Len(queue)]
\* in this order, the first one starting with the running maximum b.  The
\* states they push go behind the last of these, so none of them is popped
\* before it is.  The HashSet of possible_moves is iterated in the order of
\* insertion, one of the orders it may be iterated in.

\* `best = best.max(state.open_geodes)`: the values of best after the pop of
\* queue[lo], ..., queue[hi], the first of these pops starting from b.
RECURSIVE BestAfter(_, _, _, _)
BestAfter(queue, lo, hi, b) ==
    IF lo = hi
    THEN << Max(b, queue[lo].open_geodes) >>
    ELSE LET mid   == (lo + hi) \div 2
             first == BestAfter(queue, lo, mid, b)
             rest  == BestAfter(queue, mid + 1, hi, first[Len(first)])
         IN  first \o rest

\* `if state.maximum_achievable_open_geodes() < best { continue; }`
Discards(popped, b) == maximum_achievable_open_geodes(popped) < b

\* `consider.extend(state.possible_moves(self, most_robots_needed))`, or
\* nothing after the `continue`.
Extends(popped, b, bp, mrn) ==
    IF Discards(popped, b) THEN << >> ELSE InsertionOrder(popped, bp, mrn)

\* pushed[lo] \o ... \o pushed[hi]
RECURSIVE Flatten(_, _, _)
Flatten(pushed, lo, hi) ==
    IF lo = hi
    THEN pushed[lo]
    ELSE Flatten(pushed, lo, (lo + hi) \div 2)
             \o Flatten(pushed, ((lo + hi) \div 2) + 1, hi)

\* The new maximum, what is at the back of the queue and how many states
\* were discarded once the states of `queue` are popped.
Iterations(queue, b, bp, mrn) ==
    LET after == BestAfter(queue, 1, Len(queue), b)
    IN  [ best      |-> after[Len(queue)],
          pushed    |-> Flatten([ i \in 1..Len(queue) |->
                                    Extends(queue[i], after[i], bp, mrn) ],
                                1, Len(queue)),
          discarded |-> Cardinality({ i \in 1..Len(queue) :
                                        Discards(queue[i], after[i]) }) ]

\* The search of one blueprint as a function: the levels of the queue one
\* after the other until the queue is empty.
RECURSIVE Search(_, _, _, _)
Search(queue, b, bp, mrn) ==
    IF queue = << >>
    THEN b
    ELSE LET done == Iterations(queue, b, bp, mrn)
         IN  Search(done.pushed, done.best, bp, mrn)

most_geodes_openable(bp, time) ==
    Search(<< create_initial(time) >>, 0, bp, most_robots_needed(bp))

\* The example blueprint searched with the budget `time`.
ExampleSearch(time) ==
    /\ blueprint = ExampleBlueprint
    /\ minutes = time
    /\ most_needed = most_robots_needed(blueprint)
    /\ consider = << create_initial(minutes) >>
    /\ best = 0
    /\ pc = "run"
    /\ discarded = 0
    /\ origin = create_initial(minutes)
    /\ state = create_initial(minutes)
    /\ NoInput
    /\ OtherProgramsIdle

\* Every budget up to the one of part_one.
InitExample == \E time \in 1..PartOneMinutes : ExampleSearch(time)

\* The budgets of InitExample and the one of part_two.
InitExampleTwo ==
    \E time \in (1..PartOneMinutes) \cup { PartTwoMinutes } : ExampleSearch(time)

\* The iterations of the while loop that pop the states now in the queue.
PopLevel ==
    /\ pc = "run"
    /\ consider # << >>
    /\ \E done \in { Iterations(consider, best, blueprint, most_needed) } :
          /\ best' = done.best
          /\ consider' = done.pushed
          /\ discarded' = discarded + done.discarded
    /\ UNCHANGED << blueprint, most_needed, minutes, pc, origin, state,
                    input, answer_one, answer_two, other_programs >>

NextExample == PopLevel \/ Return

SpecExample == InitExample /\ [][NextExample]_vars

SpecExampleTwo == InitExampleTwo /\ [][NextExample]_vars

\* ------------------------------------------- search, any order of popping

\* The queue without its i-th state.
Without(queue, i) == SubSeq(queue, 1, i - 1) \o SubSeq(queue, i + 1, Len(queue))

\* An iteration of the while loop in which the state taken from the queue is
\* any of the queued states, not only the front one (pop_front takes the
\* first, a stack the last), and the children are pushed in any order.
Take ==
    /\ pc = "run"
    /\ consider # << >>
    /\ \E i \in 1..Len(consider) :
       \E popped \in { consider[i] } :
       LET newBest == Max(best, popped.open_geodes)
       IN  /\ best' = newBest
           /\ IF maximum_achievable_open_geodes(popped) < newBest
              THEN /\ consider' = Without(consider, i)
                   /\ discarded' = discarded + 1
              ELSE /\ \E kids \in { possible_moves(popped, blueprint, most_needed) } :
                      \E moves \in Orderings(kids) :
                         consider' = Without(consider, i) \o moves
                   /\ discarded' = discarded
    /\ UNCHANGED << blueprint, most_needed, minutes, pc, origin, state,
                    input, answer_one, answer_two, other_programs >>

NextAnyOrder == Take \/ Return

SpecAnyOrder == Init /\ [][NextAnyOrder]_vars

\* How many states the loop discards when the queue is first in, first out
\* and the children are pushed in insertion order.
RECURSIVE SearchDiscards(_, _, _, _)
SearchDiscards(queue, b, bp, mrn) ==
    IF queue = << >>
    THEN 0
    ELSE LET done == Iterations(queue, b, bp, mrn)
         IN  done.discarded + SearchDiscards(done.pushed, done.best, bp, mrn)

\* ------------------------------------------------ search, the whole call

\* A call of most_geodes_openable, on a blueprint with costs up to MaxCost
\* and a budget up to MaxMinutes or on the blueprint and the budget of
\* test_most_geodes_openable.
InitCalls ==
    /\ \/ /\ blueprint \in Blueprints(MaxCost)
          /\ minutes \in 1..MaxMinutes
       \/ /\ blueprint = ExampleBlueprint
          /\ minutes = PartOneMinutes
    /\ most_needed = most_robots_needed(blueprint)
    /\ consider = << >>
    /\ best = 0
    /\ pc = "call"
    /\ discarded = 0
    /\ origin = create_initial(minutes)
    /\ state = create_initial(minutes)
    /\ NoInput
    /\ OtherProgramsIdle

\* The call returns.
Call ==
    /\ pc = "call"
    /\ best' = most_geodes_openable(blueprint, minutes)
    /\ pc' = "done"
    /\ UNCHANGED << blueprint, most_needed, minutes, consider, discarded,
                    origin, state, input, answer_one, answer_two, other_programs >>

NextCalls == Call

SpecCalls == InitCalls /\ [][NextCalls]_vars

\* How many states the loop pops.
RECURSIVE SearchPops(_, _, _, _)
SearchPops(queue, b, bp, mrn) ==
    IF queue = << >>
    THEN 0
    ELSE LET done == Iterations(queue, b, bp, mrn)
         IN  Len(queue) + SearchPops(done.pushed, done.best, bp, mrn)

\* ------------------------------------------------- parsing and aggregates

\* Result<T, ParseBlueprintError>
Err == [ ok |-> FALSE ]

Ok(v) == [ ok |-> TRUE, value |-> v ]

\* A text is a sequence of characters.
Digits == << "0", "1", "2", "3", "4", "5", "6", "7", "8", "9" >>

IsDigit(c) == \E d \in 1..10 : Digits[d] = c

DigitValue(c) == (CHOOSE d \in 1..10 : Digits[d] = c) - 1

RECURSIVE DecimalValue(_)
DecimalValue(text) ==
    IF text = << >>
    THEN 0
    ELSE (10 * DecimalValue(SubSeq(text, 1, Len(text) - 1)))
             + DigitValue(text[Len(text)])

\* str::parse::<u32> on a text of decimal digits: the empty text and a text
\* with another character in it are errors.
ParseU32(text) ==
    IF text = << >> \/ \E i \in 1..Len(text) : ~IsDigit(text[i])
    THEN Err
    ELSE Ok(DecimalValue(text))

\* The decimal text of a number below 100.
Decimal(n) ==
    IF n < 10
    THEN << Digits[n + 1] >>
    ELSE << Digits[(n \div 10) + 1], Digits[(n % 10) + 1] >>

\* A line is the sequence of its pieces, as `split(": ")` and `split(". ")`
\* cut it: `starts` is what the piece starts with and `rest` the texts left
\* of the piece once the words are replaced away and, for the obsidian and
\* the geode robot, it is split at " ore and ".
Piece(starts, rest) == [ starts |-> starts, rest |-> rest ]

\* `cost_parts.len() == 2` and both parts are numbers
TwoCosts(rest) ==
    IF Len(rest) = 2
    THEN IF ParseU32(rest[1]).ok /\ ParseU32(rest[2]).ok
         THEN Ok(<< ParseU32(rest[1]).value, ParseU32(rest[2]).value >>)
         ELSE Err
    ELSE Err

\* One turn of the loops of from_str: the piece sets the result it names,
\* and a piece that names none leaves all five results as they are.
ParsePiece(acc, piece) ==
    CASE piece.starts = "Blueprint" ->
             [ acc EXCEPT !.number = ParseU32(piece.rest[1]) ]
      [] piece.starts = "Each ore robot" ->
             [ acc EXCEPT !.ore_robot_cost =
                 IF ParseU32(piece.rest[1]).ok
                 THEN Ok(<< ParseU32(piece.rest[1]).value, 0, 0 >>)
                 ELSE Err ]
      [] piece.starts = "Each clay robot" ->
             [ acc EXCEPT !.clay_robot_cost =
                 IF ParseU32(piece.rest[1]).ok
                 THEN Ok(<< ParseU32(piece.rest[1]).value, 0, 0 >>)
                 ELSE Err ]
      [] piece.starts = "Each obsidian robot" ->
             [ acc EXCEPT !.obsidian_robot_cost =
                 IF TwoCosts(piece.rest).ok
                 THEN Ok(<< TwoCosts(piece.rest).value[1],
                            TwoCosts(piece.rest).value[2], 0 >>)
                 ELSE Err ]
      [] piece.starts = "Each geode robot" ->
             [ acc EXCEPT !.geode_robot_cost =
                 IF TwoCosts(piece.rest).ok
                 THEN Ok(<< TwoCosts(piece.rest).value[1], 0,
                            TwoCosts(piece.rest).value[2] >>)
                 ELSE Err ]
      [] OTHER -> acc

RECURSIVE ParsePieces(_, _)
ParsePieces(acc, line) ==
    IF line = << >>
    THEN acc
    ELSE ParsePieces(ParsePiece(acc, Head(line)), Tail(line))

\* Blueprint::from_str: the five results start as errors, and the line is a
\* blueprint when all five are set in the end.
from_str(line) ==
    LET acc == ParsePieces([ number              |-> Err,
                             ore_robot_cost      |-> Err,
                             clay_robot_cost     |-> Err,
                             obsidian_robot_cost |-> Err,
                             geode_robot_cost    |-> Err ], line)
    IN  IF /\ acc.number.ok
           /\ acc.ore_robot_cost.ok
           /\ acc.clay_robot_cost.ok
           /\ acc.obsidian_robot_cost.ok
           /\ acc.geode_robot_cost.ok
        THEN Ok([ number              |-> acc.number.value,
                  ore_robot_cost      |-> acc.ore_robot_cost.value,
                  clay_robot_cost     |-> acc.clay_robot_cost.value,
                  obsidian_robot_cost |-> acc.obsidian_robot_cost.value,
                  geode_robot_cost    |-> acc.geode_robot_cost.value ])
        ELSE Err

\* The line of the input that reads as the blueprint n with these costs.
BlueprintLine(n, oo, co, bo, bc, go, gb) ==
    << Piece("Blueprint", << Decimal(n) >>),
       Piece("Each ore robot", << Decimal(oo) >>),
       Piece("Each clay robot", << Decimal(co) >>),
       Piece("Each obsidian robot", << Decimal(bo), Decimal(bc) >>),
       Piece("Each geode robot", << Decimal(go), Decimal(gb) >>) >>

\* Lines that are no blueprint: the geode robot is missing, the number is
\* not one, the obsidian robot has one cost only.
BrokenLines ==
    { SubSeq(BlueprintLine(1, 0, 1, 0, 1, 0, 1), 1, 4),
      << Piece("Blueprint", << << "x" >> >>) >>
          \o Tail(BlueprintLine(2, 0, 1, 0, 1, 0, 1)),
      [ BlueprintLine(3, 0, 1, 0, 1, 0, 1)
            EXCEPT ![4] = Piece("Each obsidian robot", << Decimal(1) >>) ] }

\* The blueprints numbered 0 to one past the last number of part_two, each
\* with costs that make its robots cheap or free.
BlueprintLines ==
    { BlueprintLine(n, 0, c, 0, c, 0, c) :
          n \in 0..(PartTwoLastNumber + 1), c \in 0..1 }

Lines == BlueprintLines \cup BrokenLines

RECURSIVE SeqsUpTo(_, _)
SeqsUpTo(S, n) ==
    IF n = 0
    THEN { << >> }
    ELSE LET shorter == SeqsUpTo(S, n - 1)
         IN  shorter \cup { Append(q, x) : q \in shorter, x \in S }

\* What filter_map keeps of a sequence of options.
RECURSIVE filter_map(_)
filter_map(items) ==
    IF items = << >>
    THEN << >>
    ELSE IF Head(items).some
         THEN << Head(items).value >> \o filter_map(Tail(items))
         ELSE filter_map(Tail(items))

RECURSIVE sum(_)
sum(values) ==
    IF values = << >> THEN 0 ELSE Head(values) + sum(Tail(values))

RECURSIVE product(_)
product(values) ==
    IF values = << >> THEN 1 ELSE Head(values) * product(Tail(values))

\* The closure of part_one.
PartOneItem(line) ==
    LET parsed == from_str(line)
    IN  IF parsed.ok
        THEN Some(parsed.value.number
                      * most_geodes_openable(parsed.value, PartOneMinutes))
        ELSE None

\* Mutant: the blueprints up to the last number but not the last one.
PartTwoItemBelowLast(line) ==
    LET parsed == from_str(line)
    IN  IF parsed.ok
        THEN IF parsed.value.number < PartTwoLastNumber
             THEN Some(most_geodes_openable(parsed.value, PartTwoMinutes))
             ELSE None
        ELSE None

\* The closure of part_two.
PartTwoItem(line) ==
    LET parsed == from_str(line)
    IN  IF parsed.ok
        THEN IF parsed.value.number <= PartTwoLastNumber
             THEN Some(most_geodes_openable(parsed.value, PartTwoMinutes))
             ELSE None
        ELSE None

\* Mutant: a line that is no blueprint ends part_one without an answer.
PartOneStopsAtError(lines) ==
    IF \E i \in 1..Len(lines) : ~from_str(lines[i]).ok
    THEN None
    ELSE Some(sum(filter_map([ i \in 1..Len(lines) |-> PartOneItem(lines[i]) ])))

part_one(lines) ==
    Some(sum(filter_map([ i \in 1..Len(lines) |-> PartOneItem(lines[i]) ])))

part_two(lines) ==
    Some(product(filter_map([ i \in 1..Len(lines) |-> PartTwoItem(lines[i]) ])))

\* main: an input of at most MaxLines lines is read, then come the two
\* calls of solve!.
InitParts ==
    /\ input \in SeqsUpTo(Lines, MaxLines)
    /\ answer_one = None
    /\ answer_two = None
    /\ pc = "main"
    /\ blueprint = ExampleBlueprint
    /\ most_needed = most_robots_needed(blueprint)
    /\ minutes = PartOneMinutes
    /\ consider = << >>
    /\ best = 0
    /\ discarded = 0
    /\ origin = create_initial(minutes)
    /\ state = create_initial(minutes)
    /\ OtherProgramsIdle

SolveOne ==
    /\ pc = "main"
    /\ answer_one' = part_one(input)
    /\ pc' = "one"
    /\ UNCHANGED << blueprint, most_needed, minutes, consider, best, discarded,
                    origin, state, input, answer_two, other_programs >>

SolveTwo ==
    /\ pc = "one"
    /\ answer_two' = part_two(input)
    /\ pc' = "two"
    /\ UNCHANGED << blueprint, most_needed, minutes, consider, best, discarded,
                    origin, state, input, answer_one, other_programs >>

NextParts == SolveOne \/ SolveTwo

SpecParts == InitParts /\ [][NextParts]_vars

\* ------------------------------------------------------------------ 25.rs

\* What the variables of 19.rs hold while another program runs.
Day19Idle ==
    /\ blueprint = ExampleBlueprint
    /\ most_needed = most_robots_needed(blueprint)
    /\ minutes = PartOneMinutes
    /\ consider = << >>
    /\ best = 0
    /\ discarded = 0
    /\ origin = create_initial(minutes)
    /\ state = create_initial(minutes)
    /\ NoInput

SNAFU_BASE == 5

\* The width of the signed integer the conversions compute in.  The code's
\* i64 has 64 bits; the model keeps the two's-complement arithmetic and
\* scales the width down, so that the largest values can be enumerated.
IntBits == 8

IntMax == 2 ^ (IntBits - 1) - 1

IntMin == -(2 ^ (IntBits - 1))

\* The value a two's-complement integer of IntBits bits holds for v.
Wrapped(v) == ((v - IntMin) % (2 ^ IntBits)) + IntMin

Overflows(v) == v > IntMax \/ v < IntMin

\* `/` and `%` of Rust round towards zero.
Quotient(a, b) == IF a >= 0 THEN a \div b ELSE -((-a) \div b)

Remainder(a, b) == IF a >= 0 THEN a % b ELSE -((-a) % b)

\* usize::try_from(v).unwrap_or(0)
IndexOrZero(v) == IF v >= 0 THEN v ELSE 0

SnafuDigits == << "=", "-", "0", "1", "2" >>

RECURSIVE Reversed(_)
Reversed(text) ==
    IF text = << >> THEN << >> ELSE Reversed(Tail(text)) \o << Head(text) >>

\* The loop of decimal_to_snafu, entered with `remaining` and the digits
\* pushed so far.
RECURSIVE SnafuLoop(_, _, _)
SnafuLoop(remaining, pushed, checks) ==
    IF Overflows(remaining + 2) /\ checks
    THEN Panic
    ELSE LET shifted == Wrapped(remaining + 2)
             ix == IndexOrZero(Remainder(shifted, 5))
             longer == pushed \o << SnafuDigits[ix + 1] >>
             rest == Quotient(shifted, 5)
         IN  IF rest = 0 THEN Done(Reversed(longer))
             ELSE SnafuLoop(rest, longer, checks)

decimal_to_snafu(n, checks) == SnafuLoop(n, << >>, checks)

\* SNAFU_BASE.pow(pos)
RECURSIVE Pow(_, _, _)
Pow(base, pos, checks) ==
    IF pos = 0 THEN Done(1)
    ELSE LET below == Pow(base, pos - 1, checks)
         IN  IF Panicked(below) THEN Panic
             ELSE IF Overflows(below.value * base) /\ checks THEN Panic
             ELSE Done(Wrapped(below.value * base))

\* The match on the digit: Some(qty), or None for any other character.
Quantity(digit) ==
    IF digit = "2" THEN Some(2)
    ELSE IF digit = "1" THEN Some(1)
    ELSE IF digit = "0" THEN Some(0)
    ELSE IF digit = "-" THEN Some(-1)
    ELSE IF digit = "=" THEN Some(-2)
    ELSE None

\* The closure of the filter_map at position pos of the reversed text.
Term(pos, digit, checks) ==
    LET base == Pow(SNAFU_BASE, pos, checks)
        qty == Quantity(digit)
    IN  IF Panicked(base) THEN Panic
        ELSE IF ~qty.some THEN Done(None)
        ELSE IF Overflows(base.value * qty.value) /\ checks THEN Panic
        ELSE Done(Some(Wrapped(base.value * qty.value)))

\* .sum() over the terms of reversed[pos + 1 ..], added to total.
RECURSIVE SumTerms(_, _, _, _)
SumTerms(reversed, pos, total, checks) ==
    IF pos = Len(reversed) THEN Done(total)
    ELSE LET term == Term(pos, reversed[pos + 1], checks)
         IN  IF Panicked(term) THEN Panic
             ELSE IF ~term.value.some
             THEN SumTerms(reversed, pos + 1, total, checks)
             ELSE IF Overflows(total + term.value.value) /\ checks THEN Panic
             ELSE SumTerms(reversed, pos + 1,
                           Wrapped(total + term.value.value), checks)

snafu_to_decimal(text, checks) == SumTerms(Reversed(text), 0, 0, checks)

\* A number is drawn and converted; the text, if there is one, is converted
\* back.
InitSnafu ==
    /\ overflow_checks \in BOOLEAN
    /\ decimal \in 0..IntMax
    /\ snafu = Done(<< >>)
    /\ round_trip = Done(0)
    /\ pc = "decimal"
    /\ Day19Idle /\ Day14Idle /\ Day23Idle /\ Day17Idle /\ RemainingProgramsIdle

ToSnafu ==
    /\ pc = "decimal"
    /\ snafu' = decimal_to_snafu(decimal, overflow_checks)
    /\ pc' = IF Panicked(snafu') THEN "panicked" ELSE "snafu"
    /\ UNCHANGED << overflow_checks, decimal, round_trip,
                    day19, day14, day23, day17,
                    remaining_programs >>

ToDecimal ==
    /\ pc = "snafu"
    /\ round_trip' = snafu_to_decimal(snafu.value, overflow_checks)
    /\ pc' = IF Panicked(round_trip') THEN "panicked" ELSE "round_trip"
    /\ UNCHANGED << overflow_checks, decimal, snafu,
                    day19, day14, day23, day17,
                    remaining_programs >>

NextSnafu == ToSnafu \/ ToDecimal

SpecSnafu == InitSnafu /\ [][NextSnafu]_vars

\* ------------------------------------------------------------------ 14.rs

\* The coordinates of start and finish range over 0..MaxCoordinate.
MaxCoordinate == 3

\* A Point(i32, i32) is the tuple <<x, y>>.
Coordinates == 0..MaxCoordinate

Points == Coordinates \X Coordinates

signum(v) == IF v > 0 THEN 1 ELSE IF v < 0 THEN -1 ELSE 0

\* impl Add for Point, impl Sub for Point
PointAdd(a, b) == << a[1] + b[1], a[2] + b[2] >>

PointSub(a, b) == << a[1] - b[1], a[2] - b[2] >>

from_points(from, to) ==
    LET delta == << signum(to[1] - from[1]), signum(to[2] - from[2]) >>
    IN  [ point |-> PointSub(from, delta), delta |-> delta, finish |-> to ]

\* An iterator is made for two points of one row or one column, as
\* read_rocks makes them for the corners of a path.
InitRocks ==
    /\ \E from \in Points, to \in Points :
          /\ from[1] = to[1] \/ from[2] = to[2]
          /\ start = from
          /\ rocks = from_points(from, to)
    /\ yielded = << >>
    /\ pc = "rocks"
    /\ Day19Idle /\ Day25Idle /\ Day23Idle /\ Day17Idle /\ RemainingProgramsIdle

\* Iterator::next returning Some(self.point)
RockNextSome ==
    /\ pc = "rocks"
    /\ rocks.point # rocks.finish
    /\ rocks' = [ rocks EXCEPT !.point = PointAdd(rocks.point, rocks.delta) ]
    /\ yielded' = Append(yielded, rocks'.point)
    /\ UNCHANGED << pc, start, day19, day25, day23, day17,
                    remaining_programs >>

\* Iterator::next returning None
RockNextNone ==
    /\ pc = "rocks"
    /\ rocks.point = rocks.finish
    /\ pc' = "exhausted"
    /\ UNCHANGED << rocks, start, yielded, day19, day25, day23, day17,
                    remaining_programs >>

NextRocks == RockNextSome \/ RockNextNone

SpecRocks == InitRocks /\ [][NextRocks]_vars

\* ------------------------------------------------------------------ 23.rs

\* The coordinates of the elves range over -1..MaxElfCoordinate: from_str
\* gives coordinates from 0 on, and an elf that moves north or west of the
\* input's corner gets a negative one.
MaxElfCoordinate == 1

\* An Elf(i32, i32) is the tuple <<x, y>>.
Elves == (-1..MaxElfCoordinate) \X (-1..MaxElfCoordinate)

Min(a, b) == IF a <= b THEN a ELSE b

\* Elf::max, Elf::min
ElfMax(a, b) == << Max(a[1], b[1]), Max(a[2], b[2]) >>

ElfMin(a, b) == << Min(a[1], b[1]), Min(a[2], b[2]) >>

\* The fold over self.elves.iter(); the accumulator is the pair
\* <<top_left, bottom_right>>.  Elf::min and Elf::max are commutative and
\* associative, so that one order of iteration stands for all.
RECURSIVE FoldCorners(_, _)
FoldCorners(corners, rest) ==
    IF rest = { } THEN corners
    ELSE LET elf == CHOOSE e \in rest : TRUE
         IN  FoldCorners(<< ElfMin(corners[1], elf), ElfMax(corners[2], elf) >>,
                         rest \ { elf })

\* u32::try_from(v).unwrap_or(0)
U32OrZero(v) == IF v >= 0 THEN v ELSE 0

enclosed_empty_spaces(self) ==
    LET corners == FoldCorners(<< << 0, 0 >>, << 0, 0 >> >>, self)
        top_left == corners[1]
        bottom_right == corners[2]
        rows == U32OrZero(bottom_right[2] - top_left[2] + 1)
        width == U32OrZero(bottom_right[1] - top_left[1] + 1)
        elf_count == U32OrZero(Cardinality(self))
    IN  (width * rows) - elf_count

InitElves ==
    /\ elves \in SUBSET Elves
    /\ enclosed = None
    /\ direction_cycle = 0
    /\ pc = "elves"
    /\ Day19Idle /\ Day25Idle /\ Day14Idle /\ Day17Idle /\ RemainingProgramsIdle

Enclose ==
    /\ pc = "elves"
    /\ enclosed' = Some(enclosed_empty_spaces(elves))
    /\ pc' = "enclosed"
    /\ UNCHANGED << elves, direction_cycle, day19, day25, day14, day17,
                    remaining_programs >>

NextElves == Enclose

SpecElves == InitElves /\ [][NextElves]_vars

\* ------------------------------------------------------------------ 17.rs

\* The jet patterns are the texts of '<' and '>' of 1..MaxJets characters,
\* RepeatingJets and CavityJets; height_after_rocks is asked for
\* 0..MaxShapes rocks.
MaxJets == 2

MaxShapes == 17

MAX_X == 6

\* A Point(u64, u64) is the tuple <<x, y>>; a Vec is a sequence.
shape_points(shape_type, bottom_left) ==
    LET x == bottom_left[1]
        y == bottom_left[2]
    IN  CASE shape_type = "Minus" ->
               << << x, y >>, << x + 1, y >>, << x + 2, y >>, << x + 3, y >> >>
          [] shape_type = "Plus" ->
               << << x + 1, y >>, << x, y + 1 >>, << x + 1, y + 1 >>,
                  << x + 2, y + 1 >>, << x + 1, y + 2 >> >>
          [] shape_type = "Angle" ->
               << << x, y >>, << x + 1, y >>, << x + 2, y >>,
                  << x + 2, y + 1 >>, << x + 2, y + 2 >> >>
          [] shape_type = "Pole" ->
               << << x, y >>, << x, y + 1 >>, << x, y + 2 >>, << x, y + 3 >> >>
          [] shape_type = "Square" ->
               << << x, y >>, << x + 1, y >>, << x, y + 1 >>, << x + 1, y + 1 >> >>

\* Direction::from_char
from_char(c) == IF c = "<" THEN "Left" ELSE "Right"

\* TetrisGame::new; the input is already trimmed.
new(text) ==
    [ jets |-> [ i \in 1..Len(text) |-> from_char(text[i]) ],
      jet_ix |-> 0,
      current_shape |-> shape_points("Minus", << 2, 4 >>),
      shapes |-> << "Minus", "Plus", "Angle", "Pole", "Square" >>,
      shape_ix |-> 0,
      occupied |-> { },
      max_y_values |-> [ x \in 1..(MAX_X + 1) |-> 0 ],
      visited |-> { },
      cycle |-> [ kind |-> "None" ] ]

\* The fold of max_y, from the column at index `from` (1-based) on.
RECURSIVE FoldMax(_, _, _)
FoldMax(values, from, max) ==
    IF from > Len(values) THEN max
    ELSE FoldMax(values, from + 1, Max(max, values[from]))

max_y(self) == FoldMax(self.max_y_values, 1, 0)

\* TetrisCycleState::from_game
from_game(self) ==
    [ jet_ix |-> self.jet_ix,
      shape_ix |-> self.shape_ix % Len(self.shapes),
      y_histogram |-> [ x \in 1..Len(self.max_y_values) |->
                          max_y(self) - self.max_y_values[x] ] ]

\* The `for pt in &self.current_shape` of next_shape, from the point at
\* index `from` on.
RECURSIVE Settle(_, _)
Settle(self, from) ==
    IF from > Len(self.current_shape) THEN self
    ELSE LET pt == self.current_shape[from]
             x == pt[1] + 1
         IN  Settle([ self EXCEPT
                        !.max_y_values[x] = Max(self.max_y_values[x], pt[2]),
                        !.occupied = self.occupied \cup { pt } ],
                    from + 1)

\* The entries of self.visited are the triples <<state, shape_ix, height>>;
\* a state is inserted only when it is not there.
Visited(self, cycle_state) == \E entry \in self.visited : entry[1] = cycle_state

FirstVisit(self, cycle_state) ==
    CHOOSE entry \in self.visited : entry[1] = cycle_state

next_shape(self) ==
    LET settled == Settle(self, 1)
        counted == [ settled EXCEPT !.shape_ix = settled.shape_ix + 1 ]
        falling ==
            [ counted EXCEPT !.current_shape =
                shape_points(
                    counted.shapes[(counted.shape_ix % Len(counted.shapes)) + 1],
                    << 2, max_y(counted) + 4 >>) ]
        cycle_state == from_game(falling)
        rows == max_y(falling)
    IN  IF falling.cycle.kind # "None" THEN falling
        ELSE IF Visited(falling, cycle_state)
        THEN [ falling EXCEPT !.cycle =
                 [ kind |-> "Detected",
                   first_seen |-> FirstVisit(falling, cycle_state)[2],
                   second_seen |-> falling.shape_ix,
                   height_change |-> rows - FirstVisit(falling, cycle_state)[3] ] ]
        ELSE [ falling EXCEPT !.visited =
                 falling.visited \cup { << cycle_state, falling.shape_ix, rows >> } ]

\* The closure of the filter_map of try_move.
MovedPoint(self, pt, direction) ==
    IF \/ pt[1] = 0 /\ direction = "Left"
       \/ pt[1] = MAX_X /\ direction = "Right"
       \/ pt[2] = 1 /\ direction = "Down"
    THEN None
    ELSE LET moved_pt ==
                 CASE direction = "Left" -> << pt[1] - 1, pt[2] >>
                   [] direction = "Right" -> << pt[1] + 1, pt[2] >>
                   [] direction = "Down" -> << pt[1], pt[2] - 1 >>
         IN  IF moved_pt \in self.occupied THEN None ELSE Some(moved_pt)

try_move(self, direction) ==
    LET options == [ i \in 1..Len(self.current_shape) |->
                        MovedPoint(self, self.current_shape[i], direction) ]
        moved == filter_map(options)
    IN  IF Len(moved) = Len(self.current_shape)
        THEN [ self EXCEPT !.current_shape = moved ]
        ELSE IF direction = "Down" THEN next_shape(self)
        ELSE self

\* tick, with next_jet inlined: the jet is read, then jet_ix advances.
tick(self) ==
    LET direction == self.jets[self.jet_ix + 1]
        blown == [ self EXCEPT !.jet_ix = (self.jet_ix + 1) % Len(self.jets) ]
    IN  try_move(try_move(blown, direction), "Down")

\* The `if let TetrisCycle::Detected(cycle)` of height_after_rocks: what it
\* adds to extra_height, and the game it leaves.
AddCycles(self, wanted) ==
    (wanted - self.cycle.second_seen)
        \div (self.cycle.second_seen - self.cycle.first_seen)

Skipped(self, wanted) ==
    [ self EXCEPT
        !.shape_ix = self.shape_ix
            + AddCycles(self, wanted)
                * (self.cycle.second_seen - self.cycle.first_seen),
        !.cycle = [ kind |-> "Removed" ] ]

\* Texts of '<' and '>'.
JetTexts(n) == UNION { [ 1..len -> { "<", ">" } ] : len \in 1..n }

\* A pattern under which the tower repeats itself from the fifth rock on,
\* every five rocks.
RepeatingJets == << ">", ">", "<", "<", "<", ">" >>

\* A pattern that leaves a covered hollow behind.
CavityJets ==
    << "<", "<", "<", ">", "<", "<", ">", "<", ">", ">", ">", ">", ">", ">", ">" >>

\* part_one and part_two: a new game, then height_after_rocks.
InitGame ==
    /\ \E text \in JetTexts(MaxJets) \cup { RepeatingJets, CavityJets } :
          game = new(text)
    /\ shapes \in 0..MaxShapes
    /\ extra_height = 0
    /\ height = None
    /\ pc = "game"
    /\ Day19Idle /\ Day25Idle /\ Day14Idle /\ Day23Idle /\ RemainingProgramsIdle

\* One iteration of `while self.shape_ix < shapes`.
Tick ==
    /\ pc = "game"
    /\ game.shape_ix < shapes
    /\ LET ticked == tick(game)
       IN  IF ticked.cycle.kind = "Detected"
           THEN /\ extra_height' = extra_height
                        + AddCycles(ticked, shapes) * ticked.cycle.height_change
                /\ game' = Skipped(ticked, shapes)
           ELSE /\ game' = ticked
                /\ UNCHANGED extra_height
    /\ UNCHANGED << pc, shapes, height, day19, day25, day14, day23,
                    remaining_programs >>

\* The loop ends: `self.max_y() + extra_height` is returned.
ReturnHeight ==
    /\ pc = "game"
    /\ ~(game.shape_ix < shapes)
    /\ height' = Some(max_y(game) + extra_height)
    /\ pc' = "height"
    /\ UNCHANGED << game, shapes, extra_height, day19, day25, day14, day23,
                    remaining_programs >>

NextGame == Tick \/ ReturnHeight

SpecGame == InitGame /\ [][NextGame]_vars

\* ---------------------------------------------- search, paths that cross

\* The search is also run on budgets 1..CrossingMinutes on CrossingBlueprint.
CrossingMinutes == 5

\* A blueprint on which ore robots and clay robots are free: building ore
\* robots in minutes 1 and 4 and clay robots in minutes 2 and 3 leaves the
\* same state as building them the other way round.
CrossingBlueprint == MakeBlueprint(1, 0, 0, 0, 2, 3, 1)

InitCrossing ==
    /\ blueprint = CrossingBlueprint
    /\ minutes \in 1..CrossingMinutes
    /\ most_needed = most_robots_needed(blueprint)
    /\ consider = << create_initial(minutes) >>
    /\ best = 0
    /\ pc = "run"
    /\ discarded = 0
    /\ origin = create_initial(minutes)
    /\ state = create_initial(minutes)
    /\ NoInput
    /\ OtherProgramsIdle

SpecCrossing == InitCrossing /\ [][Next]_vars

\* ---------------------------------------------------------------------
\* 24.rs: the blizzard basin

WALL == 1
BLIZZARD_U == 2
BLIZZARD_R == 4
BLIZZARD_D == 8
BLIZZARD_L == 16

MaxWidth == 2
MaxHeight == 2
MaxBlizzards == 2
\* part_one and part_two loop for as long as the goal is not reached; the
\* model stops advancing at this time.
MaxTime == 9

\* `ob & bit == bit`
HasBit(ob, bit) == (ob \div bit) % 2 = 1

\* The `match ch` of state_from_str.
Obstacle(ch) ==
    CASE ch = "#" -> WALL
      [] ch = "^" -> BLIZZARD_U
      [] ch = ">" -> BLIZZARD_R
      [] ch = "v" -> BLIZZARD_D
      [] ch = "<" -> BLIZZARD_L
      [] OTHER -> 0

\* State::state_from_str: a row of walls, the lines, a row of walls; vectors are
\* functions of the 0-based index.
state_from_str(lines) ==
    LET tall == Len(lines) - 2
        wide == Len(lines[1]) - 2
        padding == [ x \in 1..(wide + 2) |-> "#" ]
        rows == << padding >> \o lines \o << padding >>
        cells == 0..((wide + 2) * (tall + 4) - 1)
    IN  [ width |-> wide,
          height |-> tall,
          time |-> 0,
          obstacles |-> [ pos \in cells |->
              Obstacle(rows[(pos \div (wide + 2)) + 1][(pos % (wide + 2)) + 1]) ],
          elf |-> [ pos \in cells |-> pos = wide + 3 ],
          goal |-> ((wide + 2) * (tall + 2)) + wide ]

total_width(self) == self.width + 2
total_height(self) == self.height + 2

\* Mutant: a blizzard leaving the top row is not wrapped.
UpWithoutWrap(self, pos) ==
    (((pos \div total_width(self)) - 1) * total_width(self))
        + (pos % total_width(self))

\* The cells a blizzard at pos moves to.
blizzard_up(self, pos) ==
    LET y == pos \div total_width(self)
        x == pos % total_width(self)
    IN  ((IF y = 2 THEN self.height + 1 ELSE y - 1) * total_width(self)) + x

blizzard_right(self, pos) ==
    LET y == pos \div total_width(self)
        x == pos % total_width(self)
    IN  (y * total_width(self)) + (IF x = self.width THEN 1 ELSE x + 1)

blizzard_down(self, pos) ==
    LET y == pos \div total_width(self)
        x == pos % total_width(self)
    IN  ((IF y = self.height + 1 THEN 2 ELSE y + 1) * total_width(self)) + x

blizzard_left(self, pos) ==
    LET y == pos \div total_width(self)
        x == pos % total_width(self)
    IN  (y * total_width(self)) + (IF x = 1 THEN self.width ELSE x - 1)

\* `self.obstacles[pos] -= bit; self.obstacles[to] += bit;` when the cloned
\* value has the bit.
MoveBit(obstacles, ob, bit, pos, to) ==
    IF HasBit(ob, bit)
    THEN LET taken == [ obstacles EXCEPT ![pos] = @ - bit ]
         IN  [ taken EXCEPT ![to] = @ + bit ]
    ELSE obstacles

\* The first loop of advance, from pos on: `self` is the State as it was
\* when the vector was cloned, obstacles the vector being written.
RECURSIVE MoveBlizzards(_, _, _)
MoveBlizzards(self, obstacles, pos) ==
    IF pos \notin DOMAIN obstacles
    THEN obstacles
    ELSE LET ob == self.obstacles[pos]
             after_u == MoveBit(obstacles, ob, BLIZZARD_U, pos,
                                blizzard_up(self, pos))
             after_r == MoveBit(after_u, ob, BLIZZARD_R, pos,
                                blizzard_right(self, pos))
             after_d == MoveBit(after_r, ob, BLIZZARD_D, pos,
                                blizzard_down(self, pos))
             after_l == MoveBit(after_d, ob, BLIZZARD_L, pos,
                                blizzard_left(self, pos))
         IN  MoveBlizzards(self, after_l, pos + 1)

\* Mutant: a cell that was marked stays marked.
MarkKeeps(elf, obstacles, pos) ==
    [ elf EXCEPT ![pos] = @ \/ obstacles[pos] = 0 ]

\* `self.elf[pos] = self.obstacles[pos] == 0;`
Mark(elf, obstacles, pos) == [ elf EXCEPT ![pos] = obstacles[pos] = 0 ]

\* The second loop of advance, from pos on: `self` is the State as it was
\* when the elf vector was cloned, obstacles the vector after the first
\* loop, elf the vector being written.
RECURSIVE MarkElves(_, _, _, _)
MarkElves(self, obstacles, elf, pos) ==
    IF pos \notin DOMAIN elf
    THEN elf
    ELSE IF ~self.elf[pos]
    THEN MarkElves(self, obstacles, elf, pos + 1)
    ELSE LET y == pos \div total_width(self)
             x == pos % total_width(self)
             here == Mark(elf, obstacles, pos)
             above == IF y > 0
                      THEN Mark(here, obstacles, pos - total_width(self))
                      ELSE here
             below == IF y < total_height(self)
                      THEN Mark(above, obstacles, pos + total_width(self))
                      ELSE above
             before == IF x > 0 THEN Mark(below, obstacles, pos - 1) ELSE below
             after == IF x < total_width(self) - 1
                      THEN Mark(before, obstacles, pos + 1)
                      ELSE before
         IN  MarkElves(self, obstacles, after, pos + 1)

advance(self) ==
    LET obstacles == MoveBlizzards(self, self.obstacles, 0)
    IN  [ self EXCEPT !.time = @ + 1,
                      !.obstacles = obstacles,
                      !.elf = MarkElves(self, obstacles, self.elf, 0) ]

clear_elf_positions(self) ==
    [ self EXCEPT !.elf = [ pos \in DOMAIN self.obstacles |-> FALSE ] ]

has_elf_reached(self, pos) == self.elf[pos]

is_solved(self) == has_elf_reached(self, self.goal)

reset_for_trip(self, n) ==
    LET cleared == clear_elf_positions(self)
        entrance == self.width + 3
        other_side == ((self.width + 2) * (self.height + 2)) + self.width
        from == IF n % 2 = 1 THEN other_side ELSE entrance
        goal == IF n % 2 = 1 THEN entrance ELSE other_side
    IN  [ cleared EXCEPT !.elf[from] = TRUE, !.goal = goal ]

\* The lines of a basin: walls around it, the entrance in the first line,
\* the way out in the last, and the blizzards of `arrows` inside.
BasinLines(wide, tall, arrows) ==
    [ y \in 1..(tall + 2) |-> [ x \in 1..(wide + 2) |->
        IF x = 1 \/ x = wide + 2 THEN "#"
        ELSE IF y = 1 THEN (IF x = 2 THEN "." ELSE "#")
        ELSE IF y = tall + 2 THEN (IF x = wide + 1 THEN "." ELSE "#")
        ELSE IF << y, x >> \in DOMAIN arrows THEN arrows[<< y, x >>]
        ELSE "." ] ]

InitBasin ==
    /\ \E wide \in 1..MaxWidth, tall \in 1..MaxHeight :
         \E cells \in SUBSET ((2..(tall + 1)) \X (2..(wide + 1))) :
           /\ Cardinality(cells) <= MaxBlizzards
           /\ \E arrows \in [ cells -> { "^", ">", "v", "<" } ] :
                basin = state_from_str(BasinLines(wide, tall, arrows))
    /\ part \in { 1, 2 }
    /\ trip = 0
    /\ elapsed = None
    /\ pc = "basin"
    /\ Day19Idle /\ Day25Idle /\ Day14Idle /\ Day23Idle /\ Day17Idle
    /\ Day09Idle /\ Day20Idle

\* `while !state.is_solved() { state.advance(); }`
Advance ==
    /\ pc = "basin"
    /\ ~is_solved(basin)
    /\ basin.time < MaxTime
    /\ basin' = advance(basin)
    /\ UNCHANGED << pc, part, trip, elapsed, day19, day25, day14, day23,
                    day17, day09, day20 >>

\* `state.reset_for_trip(1);` and `state.reset_for_trip(2);` of part_two
ResetForTrip ==
    /\ pc = "basin"
    /\ is_solved(basin)
    /\ part = 2
    /\ trip < 2
    /\ trip' = trip + 1
    /\ basin' = reset_for_trip(basin, trip + 1)
    /\ UNCHANGED << pc, part, elapsed, day19, day25, day14, day23, day17,
                    day09, day20 >>

\* `Some(state.time)`
ReturnTime ==
    /\ pc = "basin"
    /\ is_solved(basin)
    /\ part = 1 \/ trip = 2
    /\ elapsed' = Some(basin.time)
    /\ pc' = "done"
    /\ UNCHANGED << basin, part, trip, day19, day25, day14, day23, day17,
                    day09, day20 >>

NextBasin == Advance \/ ResetForTrip \/ ReturnTime

SpecBasin == InitBasin /\ [][NextBasin]_vars

\* ---------------------------------------------------------------------
\* 23.rs: State::next, a round of the elves spreading out

MaxSpreadElves == 4
MaxSpreadX == 1
MaxSpreadY == 3

\* The cells from_str can put an elf on: column x of line y.
SpreadCells == (0..MaxSpreadX) \X (0..MaxSpreadY)

\* Elf::neighbours: NW, N, NE, E, SE, S, SW, W
neighbours(elf) ==
    << << elf[1] - 1, elf[2] - 1 >>,
       << elf[1], elf[2] - 1 >>,
       << elf[1] + 1, elf[2] - 1 >>,
       << elf[1] + 1, elf[2] >>,
       << elf[1] + 1, elf[2] + 1 >>,
       << elf[1], elf[2] + 1 >>,
       << elf[1] - 1, elf[2] + 1 >>,
       << elf[1] - 1, elf[2] >> >>

\* 1 << ix
ShiftLeft(ix) == IF ix = 0 THEN 1 ELSE 2 ^ ix

\* Elf::occupied_neighbours: the sum of `1 << ix` over the occupied ones
RECURSIVE SumOccupied(_, _, _)
SumOccupied(cells, others, ix) ==
    IF ix >= Len(cells) THEN 0
    ELSE (IF cells[ix + 1] \in others THEN ShiftLeft(ix) ELSE 0)
         + SumOccupied(cells, others, ix + 1)

occupied_neighbours(elf, others) == SumOccupied(neighbours(elf), others, 0)

\* Direction::check_neighbours
check_neighbours(direction) ==
    CASE direction = "North" -> 7
      [] direction = "South" -> 112
      [] direction = "West" -> 193
      [] direction = "East" -> 28

\* Direction::from_cycle_position
from_cycle_position(cycle_pos) ==
    CASE cycle_pos % 4 = 0 -> "North"
      [] cycle_pos % 4 = 1 -> "South"
      [] cycle_pos % 4 = 2 -> "West"
      [] OTHER -> "East"

\* `a & b` of two u8
BitAnd(a, b) ==
    LET Both(ix) == IF HasBit(a, ShiftLeft(ix)) /\ HasBit(b, ShiftLeft(ix))
                    THEN ShiftLeft(ix) ELSE 0
    IN  Both(0) + Both(1) + Both(2) + Both(3)
          + Both(4) + Both(5) + Both(6) + Both(7)

\* Direction::move_elf
move_elf(direction, elf, occupied) ==
    IF BitAnd(check_neighbours(direction), occupied) = 0
    THEN Some(CASE direction = "North" -> << elf[1], elf[2] - 1 >>
                [] direction = "South" -> << elf[1], elf[2] + 1 >>
                [] direction = "West" -> << elf[1] - 1, elf[2] >>
                [] direction = "East" -> << elf[1] + 1, elf[2] >>)
    ELSE None

\* State::direction_checks
direction_checks(self) ==
    << from_cycle_position(self.direction_cycle),
       from_cycle_position(self.direction_cycle + 1),
       from_cycle_position(self.direction_cycle + 2),
       from_cycle_position(self.direction_cycle + 3) >>

\* `checks.iter().filter_map(|dir| dir.move_elf(elf, occupied)).next()`
RECURSIVE FirstMove(_, _, _, _)
FirstMove(checks, elf, occupied, ix) ==
    IF ix > Len(checks) THEN None
    ELSE LET moved == move_elf(checks[ix], elf, occupied)
         IN  IF moved.some THEN moved
             ELSE FirstMove(checks, elf, occupied, ix + 1)

\* The closure of the first map of State::next: the pair of the elf and its
\* destination, and whether the destination was entered in `counter`.
Proposal(self, elf) ==
    LET occupied == occupied_neighbours(elf, self.elves)
        moved == FirstMove(direction_checks(self), elf, occupied, 1)
    IN  IF occupied = 0
        THEN [ elf |-> elf, dest |-> elf, counted |-> FALSE ]
        ELSE IF moved.some
        THEN [ elf |-> elf, dest |-> moved.value, counted |-> TRUE ]
        ELSE [ elf |-> elf, dest |-> elf, counted |-> FALSE ]

\* `counter.get(dest).unwrap_or(&1)` once every elf was mapped
Counter(self, dest) ==
    LET entered == { elf \in self.elves :
                       /\ Proposal(self, elf).counted
                       /\ Proposal(self, elf).dest = dest }
    IN  IF entered = { } THEN 1 ELSE Cardinality(entered)

\* Mutant: every elf goes where it proposed to go.
NextIgnoringCounter(self) ==
    [ direction_cycle |-> (self.direction_cycle + 1) % 4,
      elves |-> { Proposal(self, elf).dest : elf \in self.elves } ]

\* State::next
next(self) ==
    [ direction_cycle |-> (self.direction_cycle + 1) % 4,
      elves |-> { IF Counter(self, Proposal(self, elf).dest) > 1
                  THEN elf
                  ELSE Proposal(self, elf).dest : elf \in self.elves } ]

InitSpread ==
    /\ elves \in { some \in SUBSET SpreadCells :
                      Cardinality(some) <= MaxSpreadElves }
    /\ direction_cycle = 0
    /\ enclosed = None
    /\ pc = "spread"
    /\ Day19Idle /\ Day25Idle /\ Day14Idle /\ Day17Idle /\ RemainingProgramsIdle

\* `state = state.next()`
Spread ==
    /\ pc = "spread"
    /\ LET after == next([ direction_cycle |-> direction_cycle,
                           elves |-> elves ])
       IN  /\ elves' = after.elves
           /\ direction_cycle' = after.direction_cycle
    /\ UNCHANGED << pc, enclosed, day19, day25, day14, day17,
                    remaining_programs >>

SpecSpread == InitSpread /\ [][Spread]_vars

\* ---------------------------------------------------------------------
\* 09.rs: the rope

MaxKnots == 3
\* The head of the rope is moved no further than this from the origin.
MaxReach == 2

Directions == { "Up", "Right", "Down", "Left" }

\* Point::neighbour_in_direction; a Point is << x, y >>
neighbour_in_direction(self, direction) ==
    << CASE direction = "Left" -> self[1] - 1
         [] direction = "Right" -> self[1] + 1
         [] OTHER -> self[1],
       CASE direction = "Up" -> self[2] + 1
         [] direction = "Down" -> self[2] - 1
         [] OTHER -> self[2] >>

\* Mutant: the knot follows along one axis only.
FollowAlongOneAxis(self, other) ==
    LET candidate == IF other[1] # self[1]
                     THEN << self[1] + signum(other[1] - self[1]), self[2] >>
                     ELSE << self[1], self[2] + signum(other[2] - self[2]) >>
    IN  IF candidate[1] = other[1] /\ candidate[2] = other[2]
        THEN self
        ELSE candidate

\* Point::follow
follow(self, other) ==
    LET candidate == << self[1] + signum(other[1] - self[1]),
                        self[2] + signum(other[2] - self[2]) >>
    IN  IF candidate[1] = other[1] /\ candidate[2] = other[2]
        THEN self
        ELSE candidate

\* Rope::new
rope_new(len) == [ ix \in 1..len |-> << 0, 0 >> ]

\* The for loop of execute_step from ix on (0-based, as in the code): knots
\* is the vector pushed so far, prev its last element.
RECURSIVE FollowLoop(_, _, _, _)
FollowLoop(self, knots, prev, ix) ==
    IF ix >= Len(self)
    THEN knots
    ELSE LET knot == follow(self[ix + 1], prev)
         IN  FollowLoop(self, Append(knots, knot), knot, ix + 1)

\* Rope::execute_step of a rope that has a knot
execute_step(self, direction) ==
    LET prev == neighbour_in_direction(self[1], direction)
    IN  FollowLoop(self, << prev >>, prev, 1)

InitRope ==
    /\ \E len \in 0..MaxKnots : rope = rope_new(len)
    /\ pc = "rope"
    /\ Day19Idle /\ Day25Idle /\ Day14Idle /\ Day23Idle /\ Day17Idle
    /\ Day24Idle /\ Day20Idle

\* `rope = rope.execute_step(&instruction.direction);`
ExecuteStep ==
    /\ pc = "rope"
    /\ rope # << >>
    /\ \E direction \in Directions :
         /\ neighbour_in_direction(rope[1], direction)[1] \in -MaxReach..MaxReach
         /\ neighbour_in_direction(rope[1], direction)[2] \in -MaxReach..MaxReach
         /\ rope' = execute_step(rope, direction)
    /\ UNCHANGED << pc, day19, day25, day14, day23, day17, day24, day20 >>

\* `self.knots[0]` of a rope without knots: index out of bounds
ExecuteStepPanics ==
    /\ pc = "rope"
    /\ rope = << >>
    /\ pc' = "panicked"
    /\ UNCHANGED << rope, day19, day25, day14, day23, day17, day24, day20 >>

NextRope == ExecuteStep \/ ExecuteStepPanics

SpecRope == InitRope /\ [][NextRope]_vars

\* ---------------------------------------------------------------------
\* 20.rs: mixing the list

MaxListLen == 4
MaxValue == 2
MaxRounds == 2

\* Mutant: the remainder of Rust's `%`, which has the sign of the value.
RemTruncated(value, length) ==
    IF value >= 0 THEN value % length ELSE -((-value) % length)

\* i64::rem_euclid for a positive divisor
rem_euclid(value, length) == ((value % length) + length) % length

\* `usize::try_from(..).unwrap_or(0)`
UsizeOrZero(v) == IF v < 0 THEN 0 ELSE v

\* `circle.extend(list.iter().enumerate())`: pairs of 0-based index and value
Enumerated(values) == [ at \in 1..Len(values) |-> << at - 1, values[at] >> ]

\* `circle.iter().position(|i| i.0 == ix).unwrap_or(0)`
position(deque, ix) ==
    LET found == { at \in 1..Len(deque) : deque[at][1] = ix }
    IN  IF found = { } THEN 0
        ELSE (CHOOSE at \in found : \A other \in found : at <= other) - 1

\* VecDeque::rotate_left
rotate_left(deque, mid) ==
    SubSeq(deque, mid + 1, Len(deque)) \o SubSeq(deque, 1, mid)

\* The body of the inner loop of mix, for a circle that has an element.
MixOne(deque, ix) ==
    LET turned == rotate_left(deque, position(deque, ix))
        popped == Head(turned)
        rest == Tail(turned)
        length == Len(rest)
        distance == UsizeOrZero(rem_euclid(popped[2], length))
    IN  Append(rotate_left(rest, distance), popped)

InitMix ==
    /\ \E len \in 0..MaxListLen : list \in [ 1..len -> -MaxValue..MaxValue ]
    /\ rounds \in 0..MaxRounds
    /\ circle = Enumerated(list)
    /\ round = 0
    /\ mix_ix = 0
    /\ mixed = << >>
    /\ pc = "mix"
    /\ Day19Idle /\ Day25Idle /\ Day14Idle /\ Day23Idle /\ Day17Idle
    /\ Day24Idle /\ Day09Idle

\* One pass of `for ix in 0..list.len()`, in a list of two or more.
MixStep ==
    /\ pc = "mix"
    /\ round < rounds
    /\ Len(list) >= 2
    /\ circle' = MixOne(circle, mix_ix)
    /\ IF mix_ix + 1 = Len(list)
       THEN mix_ix' = 0 /\ round' = round + 1
       ELSE mix_ix' = mix_ix + 1 /\ round' = round
    /\ UNCHANGED << pc, list, rounds, mixed, day19, day25, day14, day23,
                    day17, day24, day09 >>

\* The pass in a list of one: the circle is empty after pop_front, and
\* rem_euclid panics on the divisor 0.
MixPanics ==
    /\ pc = "mix"
    /\ round < rounds
    /\ Len(list) = 1
    /\ pc' = "panicked"
    /\ circle' = << >>
    /\ UNCHANGED << list, rounds, round, mix_ix, mixed, day19, day25, day14,
                    day23, day17, day24, day09 >>

\* `circle.iter().map(|(_i, v)| **v).collect()`, once the rounds are over;
\* the rounds of an empty list do nothing.
ReturnMixed ==
    /\ pc = "mix"
    /\ round = rounds \/ list = << >>
    /\ mixed' = [ at \in 1..Len(circle) |-> circle[at][2] ]
    /\ pc' = "mixed"
    /\ UNCHANGED << list, rounds, circle, round, mix_ix, day19, day25, day14,
                    day23, day17, day24, day09 >>

NextMix == MixStep \/ MixPanics \/ ReturnMixed

SpecMix == InitMix /\ [][NextMix]_vars

\* ----------------------------------------------------------------- claims

Moves(s) == possible_moves(s, blueprint, most_needed)

\* The loop of most_geodes_openable with the `continue` taken out: every
\* popped state is expanded.
RECURSIVE SearchUnpruned(_, _, _)
SearchUnpruned(queue, b, bp) ==
    IF queue = << >>
    THEN b
    ELSE SearchUnpruned(
             Tail(queue) \o (CHOOSE moves \in Orderings(possible_moves(
                                 Head(queue), bp, most_robots_needed(bp))) : TRUE),
             Max(b, Head(queue).open_geodes),
             bp)

\* C1: for the example blueprint, most_geodes_openable(24), started from one
\* ore robot and no resources, returns exactly 9.
ExampleOpensNine ==
    (pc = "done" /\ blueprint = ExampleBlueprint /\ minutes = PartOneMinutes)
        => best = 9

\* The search of the example blueprint with 24 minutes has returned, after
\* discarding states.
ExampleOpensNineWitness ==
    /\ pc = "done"
    /\ blueprint = ExampleBlueprint
    /\ minutes = PartOneMinutes
    /\ consider = << >>
    /\ discarded > 0
    /\ best > 0

\* C2: for the example blueprint, most_geodes_openable(32), started from one
\* ore robot and no resources, returns exactly 56.
ExampleOpensFiftySix ==
    (pc = "done" /\ blueprint = ExampleBlueprint /\ minutes = PartTwoMinutes)
        => best = 56

\* The search of the example blueprint with 32 minutes has returned, after
\* discarding states.
ExampleOpensFiftySixWitness ==
    /\ pc = "done"
    /\ blueprint = ExampleBlueprint
    /\ minutes = PartTwoMinutes
    /\ consider = << >>
    /\ discarded > 1
    /\ best > 1

\* C3: the value most_geodes_openable returns with the bound-based pruning
\* is the value the same search returns when every popped state is expanded.
PruningChangesNothing ==
    pc = "done" =>
        best = SearchUnpruned(<< create_initial(minutes) >>, 0, blueprint)

\* A finished search that discarded states and still found geodes.
PruningChangesNothingWitness ==
    /\ pc = "done"
    /\ discarded >= 2
    /\ best >= 3

\* C4: the geodes of a state reached from origin by any chain of
\* possible_moves never exceed origin's maximum_achievable_open_geodes.
BoundNeverUnderestimates ==
    pc = "moves" => state.open_geodes <= maximum_achievable_open_geodes(origin)

\* A chain of at least two builds, from an origin that is not the initial
\* state, that ends with exactly the bound.
BoundNeverUnderestimatesWitness ==
    /\ pc = "moves"
    /\ origin # create_initial(minutes)
    /\ origin.time - state.time >= 2
    /\ state.open_geodes > origin.open_geodes
    /\ state.open_geodes = maximum_achievable_open_geodes(origin)

Parses(line) == from_str(line).ok

\* C5 as stated: if any line of the input does not parse as a Blueprint,
\* part_one and part_two yield None, no aggregate of the lines that did parse.
ParseErrorYieldsNone ==
    (pc = "two" /\ \E i \in 1..Len(input) : ~Parses(input[i]))
        => (answer_one = None /\ answer_two = None)

\* C5 as amended: part_one and part_two skip the lines that do not parse as
\* a Blueprint: both return Some, the answers of the input without those
\* lines.
UnparsedLinesAreSkipped ==
    pc = "two" =>
        /\ answer_one.some
        /\ answer_two.some
        /\ answer_one = part_one(SelectSeq(input, Parses))
        /\ answer_two = part_two(SelectSeq(input, Parses))

\* Both parts have answered an input with a line that does not parse and a
\* line that does, and the answers come from the search of the latter.
UnparsedLinesAreSkippedWitness ==
    /\ pc = "two"
    /\ \E i \in 1..Len(input) : ~Parses(input[i])
    /\ \E i \in 1..Len(input) :
          /\ Parses(input[i])
          /\ from_str(input[i]).value.number \in 1..PartTwoLastNumber
    /\ answer_one.some /\ answer_one.value > 0
    /\ answer_two.some /\ answer_two.value > 1

\* The lines of the input that are blueprints of a number in `numbers`.
BlueprintsAt(lines, numbers) ==
    { i \in 1..Len(lines) :
          Parses(lines[i]) /\ from_str(lines[i]).value.number \in numbers }

\* number x most_geodes_openable(24), added up over the lines at `at`.
RECURSIVE QualityLevels(_, _)
QualityLevels(lines, at) ==
    IF at = {}
    THEN 0
    ELSE LET i  == CHOOSE j \in at : TRUE
             bp == from_str(lines[i]).value
         IN  (bp.number * most_geodes_openable(bp, PartOneMinutes))
                 + QualityLevels(lines, at \ { i })

\* most_geodes_openable(32), multiplied over the lines at `at`.
RECURSIVE GeodesMultiplied(_, _)
GeodesMultiplied(lines, at) ==
    IF at = {}
    THEN 1
    ELSE LET i  == CHOOSE j \in at : TRUE
             bp == from_str(lines[i]).value
         IN  most_geodes_openable(bp, PartTwoMinutes)
                 * GeodesMultiplied(lines, at \ { i })

\* A number no blueprint of the inputs goes beyond.
AnyNumber == 0..99

\* C6 as stated: part_one returns the sum over all blueprints of number x
\* most_geodes_openable(24), and part_two the product of
\* most_geodes_openable(32) over exactly the blueprints numbered 1 to 3.
PartTwoMultipliesOneToThree ==
    pc = "two" =>
        /\ answer_one = Some(QualityLevels(input, BlueprintsAt(input, AnyNumber)))
        /\ answer_two = Some(GeodesMultiplied(input,
                                 BlueprintsAt(input, 1..PartTwoLastNumber)))

\* C6 as amended: part_one returns the sum over all blueprints of number x
\* most_geodes_openable(24), and part_two the product of
\* most_geodes_openable(32) over exactly the blueprints whose number is at
\* most 3, the number 0 among them.
PartTwoMultipliesUpToThree ==
    pc = "two" =>
        /\ answer_one = Some(QualityLevels(input, BlueprintsAt(input, AnyNumber)))
        /\ answer_two = Some(GeodesMultiplied(input,
                                 BlueprintsAt(input, 0..PartTwoLastNumber)))

\* Both parts have answered an input with the blueprint 3 and a blueprint
\* past 3: the first counts in both answers, the second in part_one's only.
PartTwoMultipliesUpToThreeWitness ==
    /\ pc = "two"
    /\ BlueprintsAt(input, { PartTwoLastNumber }) # {}
    /\ BlueprintsAt(input, AnyNumber \ (0..PartTwoLastNumber)) # {}
    /\ answer_one.value
           > QualityLevels(input, BlueprintsAt(input, 0..PartTwoLastNumber))
    /\ answer_two.value
           = GeodesMultiplied(input, BlueprintsAt(input, { PartTwoLastNumber }))
    /\ answer_two.value > 1

\* C11: the value most_geodes_openable returns does not depend on the order
\* in which the children of a state are enqueued nor on the order in which
\* the queued states are taken: every run returns the value of the run that
\* takes the front state and pushes the children in insertion order.
OrderChangesNothing ==
    pc = "done" => best = most_geodes_openable(blueprint, minutes)

\* A run that has ended after discarding another number of states than the
\* first-in-first-out run in insertion order does, and that found geodes.
OrderChangesNothingWitness ==
    /\ pc = "done"
    /\ best >= 3
    /\ discarded # SearchDiscards(<< create_initial(minutes) >>, 0, blueprint,
                                  most_needed)

\* What the loop body of possible_moves has for `robot` in the reached state:
\* whether it is past the cap check and the three `continue`s, and the wait.
Eligible(robot) ==
    /\ ~AtMostRobotsNeeded(state, robot, most_needed)
    /\ ~Unreachable(state, RobotCost(robot, blueprint))

Wait(robot) == minutes_until_start(state, RobotCost(robot, blueprint))

Robots == { ROBOT_TYPES[i] : i \in 1..4 }

\* C12 as stated: for each robot type that is not at its maximum useful
\* count and whose cost is reachable, possible_moves emits a child whenever
\* wait + 1 <= time, the case wait + 1 = time included, and none when
\* wait + 1 > time.
EmitsUpToTime ==
    pc = "moves" =>
        \A robot \in Robots :
            Eligible(robot) =>
                (Emits(state, robot, blueprint, most_needed)
                    <=> Wait(robot) + 1 <= state.time)

\* C12 as amended: for each such robot type possible_moves emits a child
\* whenever wait + 1 < time, and none when wait + 1 >= time, the case
\* wait + 1 = time included: a child never has 0 minutes left.
EmitsBeforeTime ==
    pc = "moves" =>
        /\ \A robot \in Robots :
              Eligible(robot) =>
                  (Emits(state, robot, blueprint, most_needed)
                      <=> Wait(robot) + 1 < state.time)
        /\ \A c \in Moves(state) : c.time >= 1

\* A state past the initial one with a robot whose build would end with the
\* last minute, which is not emitted, and a robot whose build ends one
\* minute earlier, which is.
EmitsBeforeTimeWitness ==
    /\ pc = "moves"
    /\ state # create_initial(minutes)
    /\ \E robot \in Robots :
          /\ Eligible(robot)
          /\ Wait(robot) + 1 = state.time
          /\ ~Emits(state, robot, blueprint, most_needed)
    /\ \E robot \in Robots :
          /\ Eligible(robot)
          /\ Wait(robot) + 2 = state.time
          /\ Wait(robot) >= 1
          /\ Emits(state, robot, blueprint, most_needed)

\* The child C13 describes for `robot` built from the reached state after
\* waiting w minutes.
ChildAfter(robot, w) ==
    LET cost == RobotCost(robot, blueprint)
        left == state.time - (w + 1)
    IN  [ time            |-> left,
          open_geodes     |-> IF robot = "Geode"
                              THEN state.open_geodes + left
                              ELSE state.open_geodes,
          ore_robots      |-> IF robot = "Ore"
                              THEN state.ore_robots + 1 ELSE state.ore_robots,
          clay_robots     |-> IF robot = "Clay"
                              THEN state.clay_robots + 1 ELSE state.clay_robots,
          obsidian_robots |-> IF robot = "Obsidian"
                              THEN state.obsidian_robots + 1
                              ELSE state.obsidian_robots,
          ore             |-> (state.ore + (state.ore_robots * (w + 1))) - cost[1],
          clay            |-> (state.clay + (state.clay_robots * (w + 1))) - cost[2],
          obsidian        |-> (state.obsidian + (state.obsidian_robots * (w + 1)))
                                  - cost[3] ]

\* C13: the child emitted for building robot type R after waiting w ticks
\* has time = parent time - (w + 1), each resource = parent stock + robot
\* count x (w + 1) - R's cost, the count of R incremented by one and the
\* other counts unchanged, and open_geodes increased by the child's time
\* when R is the geode robot and unchanged otherwise.
ChildIsParentAfterBuild ==
    pc = "moves" =>
        Moves(state) =
            { ChildAfter(robot, Wait(robot)) :
                robot \in { r \in Robots :
                              Emits(state, r, blueprint, most_needed) } }

\* A state with open geodes, obsidian robots and a stock of ore from which a
\* geode robot is built after a wait and another robot at once.
ChildIsParentAfterBuildWitness ==
    /\ pc = "moves"
    /\ state.open_geodes > 0
    /\ state.ore > 0 /\ state.obsidian_robots > 0
    /\ Emits(state, "Geode", blueprint, most_needed)
    /\ Wait("Geode") >= 1
    /\ \E robot \in Robots \ { "Geode" } :
          /\ Emits(state, robot, blueprint, most_needed)
          /\ Wait(robot) = 0
          /\ ChildAfter(robot, 0) \in Moves(state)

\* The stocks and robot counts of the reached state, resource by resource.
Stock(s) == << s.ore, s.clay, s.obsidian >>

Collectors(s) == << s.ore_robots, s.clay_robots, s.obsidian_robots >>

\* After w minutes of collecting the stocks of the reached state pay `cost`.
Affords(cost, w) ==
    \A i \in 1..3 : Stock(state)[i] + (Collectors(state)[i] * w) >= cost[i]

\* The robot counts div_ceil is called with once the loop body is past the
\* cap check and the three `continue`s for `robot`: those of the resources
\* of which the cost is above the stock.
Divisors(robot) ==
    IF Eligible(robot)
    THEN { Collectors(state)[i] : i \in { j \in 1..3 :
               RobotCost(robot, blueprint)[j] > Stock(state)[j] } }
    ELSE {}

\* C14: when a robot's cost exceeds the stock of a resource whose robot count
\* is zero, possible_moves emits no child for that robot and divides by no
\* zero; in every other case the wait used is the least w >= 0 such that
\* stock + robot count x w >= cost in every resource.
WaitIsLeastOrInfeasible ==
    pc = "moves" =>
        \A robot \in Robots :
            LET cost == RobotCost(robot, blueprint)
            IN  /\ 0 \notin Divisors(robot)
                /\ IF \E i \in 1..3 : cost[i] > Stock(state)[i]
                                        /\ Collectors(state)[i] = 0
                   THEN ~Emits(state, robot, blueprint, most_needed)
                   ELSE /\ Wait(robot) >= 0
                        /\ Affords(cost, Wait(robot))
                        /\ \A w \in 0..(Wait(robot) - 1) : ~Affords(cost, w)

\* A state from which one robot can never be paid, a resource it costs
\* having no robot, and another is paid after a wait that a division
\* rounding down would make too short.
WaitIsLeastOrInfeasibleWitness ==
    /\ pc = "moves"
    /\ \E robot \in Robots :
          /\ ~AtMostRobotsNeeded(state, robot, most_needed)
          /\ Unreachable(state, RobotCost(robot, blueprint))
          /\ RobotCost(robot, blueprint)[1] <= state.ore
    /\ \E robot \in Robots :
          /\ Emits(state, robot, blueprint, most_needed)
          /\ Wait(robot) >= 1
          /\ \E i \in 1..3 :
                /\ Collectors(state)[i] >= 2
                /\ RobotCost(robot, blueprint)[i] > Stock(state)[i]
                /\ (RobotCost(robot, blueprint)[i] - Stock(state)[i])
                       % Collectors(state)[i] # 0

\* The largest of a non-empty set of numbers.
Largest(S) == CHOOSE x \in S : \A y \in S : y <= x

\* C15: most_robots_needed is the component-wise maximum of the four robot
\* costs; possible_moves builds no ore, clay or obsidian robot when the count
\* of that type is already at that maximum or above; so in every reachable
\* state each count is at most the larger of its initial count and the
\* highest cost in that resource.  Geode robots are never capped.
RobotsCappedAtMostNeeded ==
    pc = "moves" =>
        /\ \A i \in 1..3 :
              most_needed[i] =
                  Largest({ RobotCost(robot, blueprint)[i] : robot \in Robots })
        /\ \A c \in Moves(state) : \A i \in 1..3 :
              Collectors(c)[i] > Collectors(state)[i]
                  => Collectors(state)[i] < most_needed[i]
        /\ \A i \in 1..3 :
              Collectors(state)[i]
                  <= Max(Collectors(create_initial(minutes))[i], most_needed[i])
        /\ ~AtMostRobotsNeeded(state, "Geode", most_needed)

\* A state with as many ore robots as are needed, two or more, and ore for
\* another one, which is not built, while a geode robot is built although
\* geode robots were built before.
RobotsCappedAtMostNeededWitness ==
    /\ pc = "moves"
    /\ state.ore_robots = most_needed[1]
    /\ state.ore_robots >= 2
    /\ state.ore >= RobotCost("Ore", blueprint)[1]
    /\ state.time >= 2
    /\ ~Emits(state, "Ore", blueprint, most_needed)
    /\ state.open_geodes > 0
    /\ Emits(state, "Geode", blueprint, most_needed)

\* A most_robots_needed no robot count reaches within `time` minutes, a
\* robot being built in a minute and one ore robot being there at the start:
\* with it the cap check of possible_moves never takes its `continue`.
NoCap(time) == << time + 1, time + 1, time + 1 >>

\* C16: capping the robot counts loses nothing: most_geodes_openable returns
\* the value of the same search with the cap check removed.
CapChangesNothing ==
    pc = "done" =>
        best = Search(<< create_initial(minutes) >>, 0, blueprint,
                      NoCap(minutes))

\* A call that returned geodes where the search without the cap check pops
\* more states than the search with it.
CapChangesNothingWitness ==
    /\ pc = "done"
    /\ best >= 2
    /\ SearchPops(<< create_initial(minutes) >>, 0, blueprint, most_needed)
           < SearchPops(<< create_initial(minutes) >>, 0, blueprint,
                        NoCap(minutes))

\* C7: every state possible_moves returns has a time strictly less than the
\* time of the state it was generated from.
ChildTimeStrictlyLess ==
    pc = "moves" => \A c \in Moves(state) : c.time < state.time

\* A parent past the initial state with a child built at once and a child
\* that had to wait.
ChildTimeStrictlyLessWitness ==
    /\ pc = "moves"
    /\ state # create_initial(minutes)
    /\ \E c \in Moves(state) : c.time = state.time - 1
    /\ \E c \in Moves(state) : c.time < state.time - 1

\* C8: every state possible_moves returns has at least the parent's
\* open_geodes, so open_geodes never decreases along a chain.
ChildOpenGeodesNotLess ==
    pc = "moves" =>
        /\ \A c \in Moves(state) : c.open_geodes >= state.open_geodes
        /\ state.open_geodes >= origin.open_geodes

\* A parent with open geodes that has a child with more and a child with
\* the same number.
ChildOpenGeodesNotLessWitness ==
    /\ pc = "moves"
    /\ state.open_geodes > 0
    /\ \E c \in Moves(state) : c.open_geodes > state.open_geodes
    /\ \E c \in Moves(state) : c.open_geodes = state.open_geodes

NonNegative(s) ==
    /\ s.ore >= 0 /\ s.clay >= 0 /\ s.obsidian >= 0
    /\ s.ore_robots >= 0 /\ s.clay_robots >= 0 /\ s.obsidian_robots >= 0

\* C9: in every state reached from create_initial the stocks and the robot
\* counts are non-negative, and so are those of every child it emits: the
\* subtraction of the cost never takes a stock below zero.
StocksNeverUnderflow ==
    pc = "moves" =>
        /\ NonNegative(state)
        /\ \A c \in Moves(state) : NonNegative(c)

\* A build that waited for ore and starts in the very minute the stock
\* reaches the cost: what is left is the ore of the build minute alone.
StocksNeverUnderflowWitness ==
    /\ pc = "moves"
    /\ \E i \in 1..4 :
          /\ Emits(state, ROBOT_TYPES[i], blueprint, most_needed)
          /\ minutes_until_start(state, RobotCost(ROBOT_TYPES[i], blueprint)) >= 1
          /\ RobotCost(ROBOT_TYPES[i], blueprint)[1] >= 2
          /\ state.ore >= 1
          /\ MoveFor(state, ROBOT_TYPES[i], blueprint).ore = state.ore_robots

\* C10: most_geodes_openable terminates: the queue becomes empty and best
\* is returned.
SearchTerminates == <>(pc = "done" /\ consider = << >>)

\* A search that ended after discarding states.
SearchTerminatesWitness ==
    /\ pc = "done"
    /\ consider = << >>
    /\ discarded >= 1
    /\ minutes >= 3

\* C17: SNAFU conversion round-trips: for every integer n >= 0 of the
\* argument's type, decimal_to_snafu(n) returns a text of the digits '=',
\* '-', '0', '1', '2' only, and snafu_to_decimal of that text is n.
SnafuRoundTrips ==
    /\ pc \in {"snafu", "round_trip"} =>
          /\ ~Panicked(snafu)
          /\ \A i \in 1..Len(snafu.value) :
                \E d \in 1..Len(SnafuDigits) : snafu.value[i] = SnafuDigits[d]
    /\ pc = "round_trip" => round_trip = Done(decimal)
    /\ pc # "panicked"

\* The conversion does round-trip below the two largest values.
SnafuRoundTripsWitness ==
    /\ pc = "round_trip"
    /\ decimal = IntMax - 2
    /\ round_trip = Done(decimal)
    /\ Len(snafu.value) > 3

\* The points of the segment from one point to another of the same row or
\* column, both included, in order.
Distance(from, to) ==
    IF from[1] = to[1]
    THEN (IF to[2] >= from[2] THEN to[2] - from[2] ELSE from[2] - to[2])
    ELSE (IF to[1] >= from[1] THEN to[1] - from[1] ELSE from[1] - to[1])

SegmentPoint(from, to, i) ==
    << IF to[1] > from[1] THEN from[1] + i
       ELSE IF to[1] < from[1] THEN from[1] - i ELSE from[1],
       IF to[2] > from[2] THEN from[2] + i
       ELSE IF to[2] < from[2] THEN from[2] - i ELSE from[2] >>

Segment(from, to) ==
    [ i \in 1..(Distance(from, to) + 1) |-> SegmentPoint(from, to, i - 1) ]

\* C20: RockIterator::from_points(start, finish), for start and finish on
\* the same row or column, equal points included, has yielded every point of
\* the segment from start to finish, both endpoints included, exactly once
\* and in order from start, when it yields None; until then it has yielded
\* the segment's first points.
RocksAreTheSegment ==
    /\ Len(yielded) <= Len(Segment(start, rocks.finish))
    /\ \A i \in 1..Len(yielded) : yielded[i] = Segment(start, rocks.finish)[i]
    /\ pc = "exhausted" => yielded = Segment(start, rocks.finish)

\* A segment of several points is yielded whole.
RocksAreTheSegmentWitness ==
    /\ pc = "exhausted"
    /\ Len(yielded) = MaxCoordinate + 1
    /\ yielded = Segment(start, rocks.finish)
    /\ start[1] > rocks.finish[1]

\* The smallest and the largest of a non-empty set of integers.
Least(S) == CHOOSE v \in S : \A w \in S : v <= w

Greatest(S) == CHOOSE v \in S : \A w \in S : v >= w

\* The area of the smallest axis-aligned rectangle that contains every elf.
RectangleArea(S) ==
    LET xs == { e[1] : e \in S }
        ys == { e[2] : e \in S }
    IN  (Greatest(xs) - Least(xs) + 1) * (Greatest(ys) - Least(ys) + 1)

\* C19: State::enclosed_empty_spaces returns the area of the smallest
\* axis-aligned rectangle that contains every elf minus the number of elves,
\* for every non-empty set of elf positions.
EnclosedIsRectangleMinusElves ==
    (pc = "enclosed" /\ elves # { }) =>
        enclosed = Some(RectangleArea(elves) - Cardinality(elves))

\* Elves on both sides of the origin: there the returned value is the
\* rectangle's area minus the number of elves.
EnclosedIsRectangleMinusElvesWitness ==
    /\ pc = "enclosed"
    /\ Cardinality(elves) = 3
    /\ << -1, 0 >> \in elves
    /\ << 1, 1 >> \in elves
    /\ enclosed = Some(RectangleArea(elves) - Cardinality(elves))
    /\ enclosed.value > 0

\* Dropping the rocks one by one with cycle skipping disabled: the game is
\* ticked, its cycle field Removed from the start, until `wanted` rocks have
\* come to rest.
RECURSIVE DropOneByOne(_, _)
DropOneByOne(self, wanted) ==
    IF self.shape_ix < wanted THEN DropOneByOne(tick(self), wanted)
    ELSE max_y(self)

\* The jet pattern as it was given to TetrisGame::new.
JetText == [ i \in 1..Len(game.jets) |-> IF game.jets[i] = "Left" THEN "<" ELSE ">" ]

HeightOneByOne ==
    DropOneByOne([ new(JetText) EXCEPT !.cycle = [ kind |-> "Removed" ] ], shapes)

\* C18: TetrisGame::height_after_rocks(n), which skips whole repetitions as
\* soon as a (jet index, shape index modulo 5, column-top profile relative
\* to the tower top) state is seen a second time, returns the same tower
\* height as dropping all n rocks one by one with cycle skipping disabled,
\* for every jet pattern and every n.
SkippingChangesNothing == pc = "height" => height = Some(HeightOneByOne)

\* Repetitions were skipped and the height is the one of dropping one by one.
SkippingChangesNothingWitness ==
    /\ pc = "height"
    /\ game.cycle.kind = "Removed"
    /\ extra_height > 0
    /\ height = Some(HeightOneByOne)

\* The state at the front of the queue, the best once it is popped, and its
\* optimistic bound.
Front == Head(consider)

BestWithFront == Max(best, Front.open_geodes)

FrontBound == maximum_achievable_open_geodes(Front)

\* C21, as claimed: in most_geodes_openable a popped state whose optimistic
\* bound cannot exceed the current best (bound <= best) is discarded without
\* being expanded; only a state whose bound is strictly greater than best
\* has its children enqueued.
TiesAreDiscarded ==
    [][ (pc = "run" /\ consider # << >>) =>
          /\ FrontBound <= BestWithFront =>
                consider' = Tail(consider) /\ discarded' = discarded + 1
          /\ consider' # Tail(consider) => FrontBound > BestWithFront ]_vars

\* C21, as the code has it: a popped state is discarded exactly when its
\* bound is less than the best; a state whose bound is equal to the best or
\* greater is expanded and its children are enqueued behind the queue.
TiesAreExpanded ==
    [][ (pc = "run" /\ consider # << >>) =>
          /\ FrontBound < BestWithFront =>
                consider' = Tail(consider) /\ discarded' = discarded + 1
          /\ FrontBound >= BestWithFront =>
                /\ discarded' = discarded
                /\ \E moves \in Orderings(Moves(Front)) :
                      consider' = Tail(consider) \o moves ]_vars

\* A state whose bound equals the best, geodes being open already, is at the
\* front with children to enqueue.
TiesAreExpandedWitness ==
    /\ pc = "run"
    /\ consider # << >>
    /\ BestWithFront >= 1
    /\ FrontBound = BestWithFront
    /\ Moves(Front) # { }

\* 1 + 2 + ... + n
RECURSIVE Triangular(_)
Triangular(n) == IF n <= 0 THEN 0 ELSE n + Triangular(n - 1)

\* C22, as claimed: State::maximum_achievable_open_geodes equals open_geodes
\* plus the triangular number of time_remaining, that is
\* open_geodes + time x (time + 1) / 2, for every state with time >= 1.
BoundIsTriangularOfTime ==
    state.time >= 1 =>
        /\ maximum_achievable_open_geodes(state)
             = state.open_geodes + ((state.time * (state.time + 1)) \div 2)
        /\ maximum_achievable_open_geodes(state)
             = state.open_geodes + Triangular(state.time)

\* C22, as the code has it: State::maximum_achievable_open_geodes equals
\* open_geodes plus the triangular number of time - 1, that is
\* open_geodes + time x (time - 1) / 2, for every state with time >= 1: a
\* geode robot built in each of the minutes left opens time - 1, time - 2,
\* ..., 0 geodes.
BoundIsTriangularOfTimeLessOne ==
    state.time >= 1 =>
        maximum_achievable_open_geodes(state)
            = state.open_geodes + Triangular(state.time - 1)

\* A state with open geodes and several minutes left.
BoundIsTriangularOfTimeLessOneWitness ==
    /\ state.time >= 3
    /\ state.open_geodes >= 2
    /\ state # origin
    /\ maximum_achievable_open_geodes(state) = state.open_geodes + Triangular(state.time - 1)

\* What a step has put behind the states that were waiting in the queue.
Enqueued == SubSeq(consider', Len(consider), Len(consider'))

BlizzardBits == { BLIZZARD_U, BLIZZARD_R, BLIZZARD_D, BLIZZARD_L }

\* The cells of a basin that carry a bit.
CellsWith(self, bit) ==
    { pos \in DOMAIN self.obstacles : HasBit(self.obstacles[pos], bit) }

\* The cells inside the walls: rows 2..height+1, columns 1..width.
Interior(self) ==
    { pos \in DOMAIN self.obstacles :
        /\ pos \div total_width(self) \in 2..(self.height + 1)
        /\ pos % total_width(self) \in 1..self.width }

\* One cell on from an interior cell in the direction of a bit, around the
\* interior: rows and columns counted from 0 inside the walls, modulo the
\* height and the width.
OneCellOn(self, pos, bit) ==
    LET row == (pos \div total_width(self)) - 2
        column == (pos % total_width(self)) - 1
        to_row == CASE bit = BLIZZARD_U -> (row + self.height - 1) % self.height
                    [] bit = BLIZZARD_D -> (row + 1) % self.height
                    [] OTHER -> row
        to_column == CASE bit = BLIZZARD_L -> (column + self.width - 1) % self.width
                       [] bit = BLIZZARD_R -> (column + 1) % self.width
                       [] OTHER -> column
    IN  ((to_row + 2) * total_width(self)) + to_column + 1

\* A step of State::advance.
IsAdvance == pc = "basin" /\ basin' # basin /\ trip' = trip

\* C24: State::advance moves every blizzard exactly one cell in its own
\* direction, wrapping inside the interior: for each of the four directions
\* the cells carrying its bit afterwards are the cells one on from those
\* carrying it before, as many as before and all inside the walls; a wall
\* cell keeps the value WALL; and time increases by exactly 1.
BlizzardsMoveOneCell ==
    [][ IsAdvance =>
          /\ basin'.time = basin.time + 1
          /\ \A bit \in BlizzardBits :
               /\ CellsWith(basin', bit)
                    = { OneCellOn(basin, pos, bit) : pos \in CellsWith(basin, bit) }
               /\ Cardinality(CellsWith(basin', bit))
                    = Cardinality(CellsWith(basin, bit))
               /\ CellsWith(basin', bit) \subseteq Interior(basin)
          /\ \A pos \in CellsWith(basin, WALL) : basin'.obstacles[pos] = WALL
    ]_vars

\* Blizzards have moved and two of them share a cell.
BlizzardsMoveOneCellWitness ==
    /\ pc = "basin"
    /\ basin.time >= 1
    /\ \E pos \in Interior(basin) :
         basin.obstacles[pos] \notin { 0 } \cup BlizzardBits

\* The cells marked as possible positions of the elves.
Marked(self) == { pos \in DOMAIN self.elf : self.elf[pos] }

\* Two cells of the grid next to each other in a row or in a column.
Adjacent(self, a, b) ==
    LET ya == a \div total_width(self)
        xa == a % total_width(self)
        yb == b \div total_width(self)
        xb == b % total_width(self)
    IN  \/ xa = xb /\ (ya = yb + 1 \/ yb = ya + 1)
        \/ ya = yb /\ (xa = xb + 1 \/ xb = xa + 1)

\* C25: after every State::advance the marked cells are exactly the cells
\* that were marked before the step or are orthogonally adjacent to such a
\* cell, and whose obstacle value after the blizzard move is 0; and in
\* every state of part_one and part_two no marked cell holds a wall or a
\* blizzard.
MarkedAreTheFreeCellsInReach ==
    /\ [](pc \in { "basin", "done" } =>
            \A pos \in Marked(basin) : basin.obstacles[pos] = 0)
    /\ [][ IsAdvance =>
             Marked(basin')
               = { pos \in DOMAIN basin.elf :
                     /\ basin'.obstacles[pos] = 0
                     /\ \/ pos \in Marked(basin)
                        \/ \E near \in Marked(basin) :
                             Adjacent(basin, near, pos) } ]_vars

\* On the way back, a blizzard sits next to a marked cell.
MarkedAreTheFreeCellsInReachWitness ==
    /\ pc = "basin"
    /\ trip = 1
    /\ basin.time >= 3
    /\ \E near \in Marked(basin), pos \in Interior(basin) :
         /\ Adjacent(basin, near, pos)
         /\ basin.obstacles[pos] \in BlizzardBits

\* An elf has another elf in one of the eight cells around it.
HasNeighbour(elf) ==
    \E other \in elves :
        /\ other # elf
        /\ other[1] - elf[1] \in -1..1
        /\ other[2] - elf[2] \in -1..1

\* The cell one step in a direction, and the three cells on that side.
StepTowards(elf, direction) ==
    CASE direction = "North" -> << elf[1], elf[2] - 1 >>
      [] direction = "South" -> << elf[1], elf[2] + 1 >>
      [] direction = "West" -> << elf[1] - 1, elf[2] >>
      [] direction = "East" -> << elf[1] + 1, elf[2] >>

SideTowards(elf, direction) ==
    IF direction \in { "North", "South" }
    THEN { << StepTowards(elf, direction)[1] + d, StepTowards(elf, direction)[2] >> :
             d \in -1..1 }
    ELSE { << StepTowards(elf, direction)[1], StepTowards(elf, direction)[2] + d >> :
             d \in -1..1 }

\* The directions in the order of this round: North, South, West, East,
\* started direction_cycle places on.
RoundOrder ==
    [ ix \in 1..4 |->
        << "North", "South", "West", "East" >>[((direction_cycle + ix - 1) % 4) + 1] ]

\* The cell an elf proposes: one step in the first direction of the round
\* whose side is free, for an elf that has a neighbour; its own cell
\* otherwise.
Proposed(elf) ==
    LET free == { ix \in 1..4 : SideTowards(elf, RoundOrder[ix]) \cap elves = { } }
    IN  IF ~HasNeighbour(elf) \/ free = { }
        THEN elf
        ELSE StepTowards(elf, RoundOrder[CHOOSE ix \in free : \A other \in free : ix <= other])

\* Where an elf is after the round: at the cell it proposed if no other elf
\* proposed it, where it was otherwise.
AfterRound(elf) ==
    IF \E other \in elves : other # elf /\ Proposed(other) = Proposed(elf)
    THEN elf
    ELSE Proposed(elf)

\* C26: State::next preserves the number of elves and never puts two elves
\* on one cell: an elf moves only to a cell that it alone proposed, all
\* elves proposing the same cell stay where they are, an elf with no
\* occupied neighbour stays, and direction_cycle advances by 1 modulo 4.
ElvesSpreadWithoutMeeting ==
    [][ pc = "spread" =>
          /\ Cardinality(elves') = Cardinality(elves)
          /\ elves' = { AfterRound(elf) : elf \in elves }
          /\ \A elf, other \in elves :
               elf # other => AfterRound(elf) # AfterRound(other)
          /\ \A elf \in elves : ~HasNeighbour(elf) => elf \in elves'
          /\ direction_cycle' = (direction_cycle + 1) % 4
    ]_vars

\* The round of the elves (1,0), (1,1), (1,3) and (0,3) is over: the two in
\* the middle both proposed (1,2) and are where they were, the other two
\* have moved north.
ElvesSpreadWithoutMeetingWitness ==
    /\ pc = "spread"
    /\ direction_cycle = 1
    /\ elves = { << 1, -1 >>, << 1, 1 >>, << 1, 3 >>, << 0, 2 >> }

\* Two points on one cell or on adjacent cells, diagonals included.
Touches(a, b) == a[1] - b[1] \in -1..1 /\ a[2] - b[2] \in -1..1

\* C27: starting from Rope::new(n), after any sequence of execute_step
\* calls every knot is on or adjacent to the knot before it, their x and y
\* each differing by at most 1; and a knot that touches its predecessor
\* where the step has put it does not move in that step.
KnotsStayTogether ==
    /\ [](\A ix \in 2..Len(rope) : Touches(rope[ix], rope[ix - 1]))
    /\ [][ \A ix \in 2..Len(rope) :
             Touches(rope[ix], rope'[ix - 1]) => rope'[ix] = rope[ix] ]_vars

\* Three knots in a diagonal line, the last one away from the origin.
KnotsStayTogetherWitness ==
    /\ pc = "rope"
    /\ Len(rope) = 3
    /\ rope[3] # << 0, 0 >>
    /\ rope[1] = << rope[2][1] + 1, rope[2][2] + 1 >>
    /\ rope[2] = << rope[3][1] + 1, rope[3][2] + 1 >>

\* How often a value occurs in a sequence.
Occurrences(values, v) == Cardinality({ at \in 1..Len(values) : values[at] = v })

\* The place of an element in the circle, and the element `places` further
\* round the circle from a place, counted without the element `skipped`.
PlaceOf(deque, element) == CHOOSE at \in 1..Len(deque) : deque[at] = element

RECURSIVE Onwards(_, _, _, _)
Onwards(deque, at, skipped, places) ==
    LET following == (at % Len(deque)) + 1
    IN  IF deque[following] = skipped
        THEN Onwards(deque, following, skipped, places)
        ELSE IF places = 1
        THEN deque[following]
        ELSE Onwards(deque, following, skipped, places - 1)

\* The element the inner loop of mix is about to relocate.
Relocated == << mix_ix, list[mix_ix + 1] >>

\* Its value modulo n - 1: the d in 0..n-2 with value = k * (n - 1) + d.
Places ==
    CHOOSE d \in 0..(Len(list) - 2) :
        \E k \in (-MaxValue - 1)..MaxValue :
            Relocated[2] = (k * (Len(list) - 1)) + d

\* C28: mix(list, rounds) returns a permutation of the input, same length
\* and same multiset of values, for every list of at least two numbers;
\* and each mixing step relocates only the element with the current
\* original index, by its value modulo (n - 1) places around the circle:
\* every other element is followed by the same other element as before,
\* and the relocated one comes to stand before the element that was one
\* more than that many places after it.
MixIsAPermutation ==
    /\ []((pc = "mixed" /\ Len(list) >= 2) =>
            /\ Len(mixed) = Len(list)
            /\ \A v \in -MaxValue..MaxValue :
                 Occurrences(mixed, v) = Occurrences(list, v))
    /\ [][ (pc = "mix" /\ mix_ix' # mix_ix) =>
             /\ { circle'[at] : at \in 1..Len(circle') }
                  = { circle[at] : at \in 1..Len(circle) }
             /\ Len(circle') = Len(circle)
             /\ \A at \in 1..Len(circle) :
                  circle[at] # Relocated =>
                    Onwards(circle', PlaceOf(circle', circle[at]), Relocated, 1)
                      = Onwards(circle, at, Relocated, 1)
             /\ Onwards(circle', PlaceOf(circle', Relocated), Relocated, 1)
                  = Onwards(circle, PlaceOf(circle, Relocated), Relocated,
                            Places + 1)
       ]_vars

\* Two rounds over four numbers, two of them equal and one negative, have
\* changed the order.
MixIsAPermutationWitness ==
    /\ pc = "mixed"
    /\ Len(list) = 4
    /\ rounds = 2
    /\ list[1] = list[2]
    /\ list[3] < 0
    /\ mixed # list

====
